---- MODULE Spec2Model ----
(***************************************************************************)
(* Model of the CSV parser of @pawel-up/csv: the streaming parser          *)
(* (CSVParser.stream / handleChunk / handleFlush / processBuffer), the     *)
(* batch parser (CSVParser.parse), the schema tracker (prepareHeaderData,  *)
(* updateFormat), the row tokenizer (parseRow) and the type detector       *)
(* (detectDataType).                                                       *)
(*                                                                         *)
(* A text is a sequence of one-character strings.  A cell value is a       *)
(* record tagged with its JavaScript type.  The arrays held by the parser  *)
(* result are heap objects: an emitted snapshot `{ ...this.result }` is a  *)
(* shallow copy that still points at the arrays of the live result.        *)
(***************************************************************************)
EXTENDS Integers, Sequences, FiniteSets, TLC

LF == "\n"
CR == "\r"
SP == " "

\* ------------------------------------------------------------------------
\* Bounds of the model.
\* ------------------------------------------------------------------------
\* Number of stream()/parse() calls made on the one parser instance.
MaxSessions == 2
\* The maxRows option ranges over 0..MaxRowsOpt; 0 stands for "not set"
\* (the code tests `this.options.maxRows &&`, so 0 and undefined agree).
MaxRowsOpt == 2
\* Length of the lines handed to the row tokenizer on its own.
MaxLineLen == 4
\* Number of parse() calls started on one instance before all have settled.
MaxCalls == 2

\* ------------------------------------------------------------------------
\* String primitives of the JavaScript runtime used by the parser.
\* ------------------------------------------------------------------------
\* Characters String.prototype.trim() removes (those the inputs can hold).
WhiteSpace == {SP, "\t", LF, CR}

Digits == {"0", "1", "2", "3", "4", "5", "6", "7", "8", "9"}

RECURSIVE trimStart(_)
trimStart(s) ==
  IF s # <<>> /\ Head(s) \in WhiteSpace THEN trimStart(Tail(s)) ELSE s

RECURSIVE trimEnd(_)
trimEnd(s) ==
  IF s # <<>> /\ s[Len(s)] \in WhiteSpace
  THEN trimEnd(SubSeq(s, 1, Len(s) - 1))
  ELSE s

\* String.prototype.trim
trim(s) == trimEnd(trimStart(s))

\* String.prototype.startsWith
startsWith(s, p) == Len(s) >= Len(p) /\ SubSeq(s, 1, Len(p)) = p

\* String.prototype.toLowerCase on one character (the letters of the
\* boolean literals; every other character of the inputs has no case).
toLowerChar(c) ==
  CASE c = "T" -> "t" [] c = "R" -> "r" [] c = "U" -> "u" [] c = "E" -> "e"
    [] c = "F" -> "f" [] c = "A" -> "a" [] c = "L" -> "l" [] c = "S" -> "s"
    [] OTHER -> c

toLowerCase(s) == [i \in 1..Len(s) |-> toLowerChar(s[i])]

RECURSIVE DigitsToNat(_)
DigitsToNat(s) ==
  IF s = <<>> THEN 0
  ELSE 10 * DigitsToNat(SubSeq(s, 1, Len(s) - 1))
       + (CHOOSE d \in 0..9 : <<"0", "1", "2", "3", "4", "5", "6", "7", "8", "9">>[d + 1] = s[Len(s)])

RECURSIVE NatToDigits(_)
NatToDigits(n) ==
  IF n < 10 THEN << <<"0", "1", "2", "3", "4", "5", "6", "7", "8", "9">>[n + 1] >>
  ELSE Append(NatToDigits(n \div 10), <<"0", "1", "2", "3", "4", "5", "6", "7", "8", "9">>[(n % 10) + 1])

RECURSIVE Zeros(_)
Zeros(n) == IF n <= 0 THEN <<>> ELSE <<"0">> \o Zeros(n - 1)

\* ------------------------------------------------------------------------
\* Number(text): the decimal literals of the StringNumericLiteral grammar.
\* A number is kept as mantissa m and decimal exponent e (value m * 10^e),
\* normalised so that m has no trailing zero; this is the value up to the
\* rounding of a double.
\* ------------------------------------------------------------------------
StripSign(s) == IF s # <<>> /\ s[1] \in {"+", "-"} THEN Tail(s) ELSE s

IsNegative(s) == s # <<>> /\ s[1] = "-"

ExpPos(s) ==
  LET idx == {i \in 1..Len(s) : s[i] \in {"e", "E"}}
  IN IF idx = {} THEN 0 ELSE CHOOSE i \in idx : \A j \in idx : i <= j

MantissaText(s) == IF ExpPos(s) = 0 THEN s ELSE SubSeq(s, 1, ExpPos(s) - 1)

ExponentText(s) == IF ExpPos(s) = 0 THEN <<>> ELSE SubSeq(s, ExpPos(s) + 1, Len(s))

DotPos(m) ==
  LET idx == {i \in 1..Len(m) : m[i] = "."}
  IN IF idx = {} THEN 0 ELSE CHOOSE i \in idx : \A j \in idx : i <= j

IntPart(m) == IF DotPos(m) = 0 THEN m ELSE SubSeq(m, 1, DotPos(m) - 1)

FracPart(m) == IF DotPos(m) = 0 THEN <<>> ELSE SubSeq(m, DotPos(m) + 1, Len(m))

AllDigits(s) == \A i \in 1..Len(s) : s[i] \in Digits

ValidMantissa(m) ==
  /\ AllDigits(IntPart(m))
  /\ AllDigits(FracPart(m))
  /\ Len(IntPart(m)) + Len(FracPart(m)) > 0

ValidExponent(x) == StripSign(x) # <<>> /\ AllDigits(StripSign(x))

\* !isNaN(Number(s)) for a trimmed, non-empty s
IsNumeric(s) ==
  LET u == StripSign(s)
  IN /\ ValidMantissa(MantissaText(u))
     /\ (ExpPos(u) = 0 \/ ValidExponent(ExponentText(u)))

RECURSIVE Normalise(_, _)
Normalise(m, e) ==
  IF m = 0 THEN [m |-> 0, e |-> 0]
  ELSE IF m % 10 = 0 THEN Normalise(m \div 10, e + 1)
  ELSE [m |-> m, e |-> e]

\* Number(s) for a numeric s
NumberOf(s) ==
  LET u  == StripSign(s)
      mt == MantissaText(u)
      xt == ExponentText(u)
      x  == IF xt = <<>> THEN 0
            ELSE (IF IsNegative(xt) THEN -1 ELSE 1) * DigitsToNat(StripSign(xt))
      n  == Normalise(DigitsToNat(IntPart(mt) \o FracPart(mt)), x - Len(FracPart(mt)))
  IN [m |-> (IF IsNegative(s) THEN -1 ELSE 1) * n.m, e |-> n.e]

\* Number.isInteger
NumberIsInteger(num) == num.e >= 0

\* String(num) in the plain decimal notation (magnitudes 1e-6 .. 1e21)
NumberToString(num) ==
  LET a == IF num.m < 0 THEN -num.m ELSE num.m
      d == NatToDigits(a)
      body == IF num.e >= 0 THEN d \o Zeros(num.e)
              ELSE IF Len(d) > -num.e
                   THEN SubSeq(d, 1, Len(d) + num.e) \o <<".">> \o SubSeq(d, Len(d) + num.e + 1, Len(d))
                   ELSE <<"0", ".">> \o Zeros(-num.e - Len(d)) \o d
  IN IF num.m < 0 THEN <<"-">> \o body ELSE body

\* ------------------------------------------------------------------------
\* Cell values and detected types (src/lib/DataType).
\* ------------------------------------------------------------------------
NoNumber == [m |-> 0, e |-> 0]

StringValue(t) == [k |-> "string", s |-> t, n |-> NoNumber, b |-> FALSE]

NumberValue(num) == [k |-> "number", s |-> <<>>, n |-> num, b |-> FALSE]

BooleanValue(x) == [k |-> "boolean", s |-> <<>>, n |-> NoNumber, b |-> x]

\* JavaScript truthiness of a cell value: '', 0 and false are falsy
Truthy(v) ==
  CASE v.k = "string" -> v.s # <<>>
    [] v.k = "number" -> v.n.m # 0
    [] OTHER -> v.b

\* String(value)
ValueToString(v) ==
  CASE v.k = "string" -> v.s
    [] v.k = "number" -> NumberToString(v.n)
    [] OTHER -> IF v.b THEN <<"t", "r", "u", "e">> ELSE <<"f", "a", "l", "s", "e">>

\* The argument null of detectDataType: the one argument that is not a text
Null == <<"null">>

\* An absent dateFormats argument or option
Undefined == [undefined |-> TRUE]

DefaultDateFormats ==
  [date |-> <<<<"Y", "Y", "Y", "Y", "-", "M", "M", "-", "D", "D">>, <<"M", "M", "/", "D", "D", "/", "Y", "Y", "Y", "Y">>, <<"D", "D", ".", "M", "M", ".", "Y", "Y", "Y", "Y">>>>,
   time |-> <<<<"H", "H", ":", "m", "m", ":", "s", "s">>, <<"H", "H", ":", "m", "m">>, <<"H", "H", ":", "m", "m", ":", "s", "s", ".", "S", "S", "S">>>>,
   datetime |-> <<<<"Y", "Y", "Y", "Y", "-", "M", "M", "-", "D", "D", SP, "H", "H", ":", "m", "m", ":", "s", "s">>, <<"Y", "Y", "Y", "Y", "-", "M", "M", "-", "D", "D", "T", "H", "H", ":", "m", "m", ":", "s", "s", "Z">>, <<"Y", "Y", "Y", "Y", "-", "M", "M", "-", "D", "D", "T", "H", "H", ":", "m", "m", ":", "s", "s", ".", "S", "S", "S", "Z">>>>]

\* The regular expression createDateTimeRegex builds from a format, applied
\* to a value: YYYY is four digits, MM DD HH mm ss are two digits, SSS is
\* three digits, a whitespace character of the format is any whitespace,
\* every other character stands for itself; anchored at both ends.
RECURSIVE createDateTimeRegex(_, _)
createDateTimeRegex(format, value) ==
  LET digitsAt(n) == Len(value) >= n /\ AllDigits(SubSeq(value, 1, n))
      rest(fn, vn) == createDateTimeRegex(SubSeq(format, fn + 1, Len(format)),
                                          SubSeq(value, vn + 1, Len(value)))
  IN IF format = <<>> THEN value = <<>>
     ELSE IF startsWith(format, <<"Y", "Y", "Y", "Y">>) THEN digitsAt(4) /\ rest(4, 4)
     ELSE IF \E tk \in {"M", "D", "H", "m", "s"} : startsWith(format, <<tk, tk>>)
          THEN digitsAt(2) /\ rest(2, 2)
     ELSE IF startsWith(format, <<"S", "S", "S">>) THEN digitsAt(3) /\ rest(3, 3)
     ELSE IF Head(format) \in WhiteSpace
          THEN value # <<>> /\ Head(value) \in WhiteSpace /\ rest(1, 1)
     ELSE value # <<>> /\ Head(value) = Head(format) /\ rest(1, 1)

MatchesAny(formats, value) ==
  \E i \in 1..Len(formats) : createDateTimeRegex(formats[i], value)

\* !isNaN(new Date(text).getTime()) for the texts the datetime formats can
\* match: the calendar fields must be in range.
DateParses(value) ==
  /\ Len(value) >= 19
  /\ AllDigits(SubSeq(value, 1, 4))
  /\ AllDigits(SubSeq(value, 6, 7)) /\ DigitsToNat(SubSeq(value, 6, 7)) \in 1..12
  /\ AllDigits(SubSeq(value, 9, 10)) /\ DigitsToNat(SubSeq(value, 9, 10)) \in 1..31
  /\ AllDigits(SubSeq(value, 12, 13)) /\ DigitsToNat(SubSeq(value, 12, 13)) \in 0..23
  /\ AllDigits(SubSeq(value, 15, 16)) /\ DigitsToNat(SubSeq(value, 15, 16)) \in 0..59
  /\ AllDigits(SubSeq(value, 18, 19)) /\ DigitsToNat(SubSeq(value, 18, 19)) \in 0..59

\* detectDataType that asks the Date constructor before any pattern and
\* tries the datetime, date and time patterns in this order
detectDataTypeDateFirst(value, dateFormats) ==
  LET trimmedValue == trim(value)
      lowerValue == toLowerCase(trimmedValue)
      str == [type |-> "string", format |-> "none", value |-> StringValue(trimmedValue)]
  IN IF value = Null
     THEN [type |-> "string", format |-> "none", value |-> StringValue(<<>>)]
     ELSE IF trimmedValue = <<>>
     THEN [type |-> "string", format |-> "none", value |-> StringValue(<<>>)]
     ELSE IF lowerValue = <<"t", "r", "u", "e">> \/ lowerValue = <<"f", "a", "l", "s", "e">>
     THEN [type |-> "boolean", format |-> "none", value |-> BooleanValue(lowerValue = <<"t", "r", "u", "e">>)]
     ELSE IF IsNumeric(trimmedValue)
     THEN LET num == NumberOf(trimmedValue)
          IN [type |-> "number",
              format |-> IF NumberIsInteger(num) /\ DotPos(trimmedValue) = 0
                         THEN "integer" ELSE "decimal",
              value |-> NumberValue(num)]
     ELSE IF dateFormats = Undefined THEN str
     ELSE IF ~DateParses(trimmedValue) THEN str
     ELSE IF MatchesAny(dateFormats.datetime, trimmedValue)
     THEN [type |-> "datetime", format |-> "none", value |-> StringValue(trimmedValue)]
     ELSE IF MatchesAny(dateFormats.date, trimmedValue)
     THEN [type |-> "date", format |-> "none", value |-> StringValue(trimmedValue)]
     ELSE IF MatchesAny(dateFormats.time, trimmedValue)
     THEN [type |-> "time", format |-> "none", value |-> StringValue(trimmedValue)]
     ELSE str

\* detectDataType whose sub-format is Number.isInteger(num) alone
detectDataTypeIsIntegerOnly(value, dateFormats) ==
  LET trimmedValue == trim(value)
      lowerValue == toLowerCase(trimmedValue)
      str == [type |-> "string", format |-> "none", value |-> StringValue(trimmedValue)]
  IN IF value = Null
     THEN [type |-> "string", format |-> "none", value |-> StringValue(<<>>)]
     ELSE IF trimmedValue = <<>>
     THEN [type |-> "string", format |-> "none", value |-> StringValue(<<>>)]
     ELSE IF lowerValue = <<"t", "r", "u", "e">> \/ lowerValue = <<"f", "a", "l", "s", "e">>
     THEN [type |-> "boolean", format |-> "none", value |-> BooleanValue(lowerValue = <<"t", "r", "u", "e">>)]
     ELSE IF IsNumeric(trimmedValue)
     THEN LET num == NumberOf(trimmedValue)
          IN [type |-> "number",
              format |-> IF NumberIsInteger(num) THEN "integer" ELSE "decimal",
              value |-> NumberValue(num)]
     ELSE IF dateFormats = Undefined THEN str
     ELSE IF MatchesAny(dateFormats.time, trimmedValue)
     THEN [type |-> "time", format |-> "none", value |-> StringValue(trimmedValue)]
     ELSE IF MatchesAny(dateFormats.date, trimmedValue)
     THEN [type |-> "date", format |-> "none", value |-> StringValue(trimmedValue)]
     ELSE IF ~DateParses(trimmedValue) THEN str
     ELSE IF MatchesAny(dateFormats.datetime, trimmedValue)
     THEN [type |-> "datetime", format |-> "none", value |-> StringValue(trimmedValue)]
     ELSE str

\* detectDataType(value, dateFormats); format "none" is the absent property
detectDataType(value, dateFormats) ==
  LET trimmedValue == trim(value)
      lowerValue == toLowerCase(trimmedValue)
      str == [type |-> "string", format |-> "none", value |-> StringValue(trimmedValue)]
  IN IF value = Null
     THEN [type |-> "string", format |-> "none", value |-> StringValue(<<>>)]
     ELSE IF trimmedValue = <<>>
     THEN [type |-> "string", format |-> "none", value |-> StringValue(<<>>)]
     ELSE IF lowerValue = <<"t", "r", "u", "e">> \/ lowerValue = <<"f", "a", "l", "s", "e">>
     THEN [type |-> "boolean", format |-> "none", value |-> BooleanValue(lowerValue = <<"t", "r", "u", "e">>)]
     ELSE IF IsNumeric(trimmedValue)
     THEN LET num == NumberOf(trimmedValue)
          IN [type |-> "number",
              format |-> IF NumberIsInteger(num) /\ DotPos(trimmedValue) = 0
                         THEN "integer" ELSE "decimal",
              value |-> NumberValue(num)]
     ELSE IF dateFormats = Undefined THEN str
     ELSE IF MatchesAny(dateFormats.time, trimmedValue)
     THEN [type |-> "time", format |-> "none", value |-> StringValue(trimmedValue)]
     ELSE IF MatchesAny(dateFormats.date, trimmedValue)
     THEN [type |-> "date", format |-> "none", value |-> StringValue(trimmedValue)]
     ELSE IF ~DateParses(trimmedValue) THEN str
     ELSE IF MatchesAny(dateFormats.datetime, trimmedValue)
     THEN [type |-> "datetime", format |-> "none", value |-> StringValue(trimmedValue)]
     ELSE str

\* ------------------------------------------------------------------------
\* Line splitting and the row tokenizer (CSVParser).
\* ------------------------------------------------------------------------
\* text.split(/\r\n|\r|\n/)
RECURSIVE splitLinesFrom(_, _, _)
splitLinesFrom(text, i, cur) ==
  IF i > Len(text) THEN <<cur>>
  ELSE IF text[i] = CR /\ i < Len(text) /\ text[i + 1] = LF
       THEN <<cur>> \o splitLinesFrom(text, i + 2, <<>>)
  ELSE IF text[i] \in {CR, LF}
       THEN <<cur>> \o splitLinesFrom(text, i + 1, <<>>)
  ELSE splitLinesFrom(text, i + 1, Append(cur, text[i]))

splitLines(text) == splitLinesFrom(text, 1, <<>>)

\* The scan of parseRow that takes two quotes in a row for an escaped
\* quote outside a quoted section too
RECURSIVE parseRowFromEscapeAnywhere(_, _, _, _, _)
parseRowFromEscapeAnywhere(o, line, i, inQuote, currentValue) ==
  IF i > Len(line) THEN <<currentValue>>
  ELSE IF line[i] = o.quote
       THEN IF i < Len(line) /\ line[i + 1] = o.quote
            THEN parseRowFromEscapeAnywhere(o, line, i + 2, inQuote, Append(currentValue, o.quote))
            ELSE parseRowFromEscapeAnywhere(o, line, i + 1, ~inQuote, currentValue)
  ELSE IF line[i] = o.delimiter /\ ~inQuote
       THEN <<currentValue>> \o parseRowFromEscapeAnywhere(o, line, i + 1, inQuote, <<>>)
  ELSE parseRowFromEscapeAnywhere(o, line, i + 1, inQuote, Append(currentValue, line[i]))

\* The scan of parseRow that drops the field whose quote is never closed
RECURSIVE parseRowFromDropsOpen(_, _, _, _, _)
parseRowFromDropsOpen(o, line, i, inQuote, currentValue) ==
  IF i > Len(line) THEN (IF inQuote THEN <<>> ELSE <<currentValue>>)
  ELSE IF line[i] = o.quote
       THEN IF inQuote /\ i < Len(line) /\ line[i + 1] = o.quote
            THEN parseRowFromDropsOpen(o, line, i + 2, inQuote, Append(currentValue, o.quote))
            ELSE parseRowFromDropsOpen(o, line, i + 1, ~inQuote, currentValue)
  ELSE IF line[i] = o.delimiter /\ ~inQuote
       THEN <<currentValue>> \o parseRowFromDropsOpen(o, line, i + 1, inQuote, <<>>)
  ELSE parseRowFromDropsOpen(o, line, i + 1, inQuote, Append(currentValue, line[i]))

\* The scan of parseRow from position i (1-based) on
RECURSIVE parseRowFrom(_, _, _, _, _)
parseRowFrom(o, line, i, inQuote, currentValue) ==
  IF i > Len(line) THEN <<currentValue>>
  ELSE IF line[i] = o.quote
       THEN IF inQuote /\ i < Len(line) /\ line[i + 1] = o.quote
            THEN parseRowFrom(o, line, i + 2, inQuote, Append(currentValue, o.quote))
            ELSE parseRowFrom(o, line, i + 1, ~inQuote, currentValue)
  ELSE IF line[i] = o.delimiter /\ ~inQuote
       THEN <<currentValue>> \o parseRowFrom(o, line, i + 1, inQuote, <<>>)
  ELSE parseRowFrom(o, line, i + 1, inQuote, Append(currentValue, line[i]))

parseRow(o, line) == parseRowFrom(o, line, 1, FALSE, <<>>)

\* detectDataTypes: every cell is trimmed and classified
detectDataTypes(o, data) ==
  [r \in 1..Len(data) |->
     [c \in 1..Len(data[r]) |-> detectDataType(trim(data[r][c]), o.dateFormats)]]

\* The skip test on the line as it stands, not trimmed
SkipLineNoTrim(o, line) ==
  line = <<>> \/ startsWith(line, o.comment)

\* The test that skips a line: empty after trim, or a comment
SkipLine(o, line) ==
  LET trimmedLine == trim(line)
  IN trimmedLine = <<>> \/ startsWith(trimmedLine, o.comment)

\* readUntilLastNewline that takes every terminator for two characters
readUntilLastNewlineSkip(input) ==
  LET idx == {i \in 1..Len(input) : input[i] = LF \/ input[i] = CR}
  IN IF idx = {}
     THEN [found |-> FALSE, processable |-> <<>>, remaining |-> input]
     ELSE LET i == CHOOSE k \in idx : \A j \in idx : j <= k
          IN [found |-> TRUE,
              processable |-> SubSeq(input, 1, i - 1),
              remaining |-> SubSeq(input, i + 2, Len(input))]

\* readUntilLastNewline: found is FALSE for the `null` first element
readUntilLastNewline(input) ==
  LET idx == {i \in 1..Len(input) : input[i] = LF \/ input[i] = CR}
  IN IF idx = {}
     THEN [found |-> FALSE, processable |-> <<>>, remaining |-> input]
     ELSE LET i == CHOOSE k \in idx : \A j \in idx : j <= k
          IN [found |-> TRUE,
              processable |-> SubSeq(input, 1, i - 1),
              remaining |-> SubSeq(input, i + 1, Len(input))]

\* ------------------------------------------------------------------------
\* The parse result and the schema tracker (CSVParser).
\* ------------------------------------------------------------------------
\* The result object of the constructor and of reset()
EmptyResult == [format |-> <<>>, values |-> <<>>, header |-> <<>>]

\* `column_${n}`
ColumnName(n) == <<"c", "o", "l", "u", "m", "n", "_">> \o NatToDigits(n)

\* prepareHeaderData whose find() tests the value of the cell:
\* values.find((row) => !!row[index]?.value)
prepareHeaderDataSkipEmpty(o, res, values) ==
  IF values = <<>> THEN [result |-> res, values |-> values]
  ELSE
    LET header == values[1]
        rest == IF o.header THEN Tail(values) ELSE values
        name(i) == IF o.header /\ Truthy(header[i].value)
                   THEN ValueToString(header[i].value)
                   ELSE ColumnName(i)
        has(i) == {r \in 1..Len(rest) : Len(rest[r]) >= i /\ Truthy(rest[r][i].value)}
        first(i) == CHOOSE r \in has(i) : \A q \in has(i) : r <= q
        info(i) == [name |-> name(i),
                    type |-> IF has(i) = {} THEN "string" ELSE rest[first(i)][i].type,
                    format |-> IF has(i) = {} THEN "none" ELSE rest[first(i)][i].format,
                    index |-> i - 1]
    IN [result |->
          [format |-> res.format \o [i \in 1..Len(header) |-> info(i)],
           header |-> IF o.header
                      THEN res.header \o [i \in 1..Len(header) |-> name(i)]
                      ELSE res.header,
           values |-> res.values],
        values |-> rest]

\* prepareHeaderData(values) on the result object res: the new content of
\* res and what is left of the array `values` (shift() removes the header)
prepareHeaderData(o, res, values) ==
  IF values = <<>> THEN [result |-> res, values |-> values]
  ELSE
    LET header == values[1]
        rest == IF o.header THEN Tail(values) ELSE values
        name(i) == IF o.header /\ Truthy(header[i].value)
                   THEN ValueToString(header[i].value)
                   ELSE ColumnName(i)
        \* values.find((row) => !!row[index]): the first row that has a cell
        \* object at the index, whatever its value
        has(i) == {r \in 1..Len(rest) : Len(rest[r]) >= i}
        first(i) == CHOOSE r \in has(i) : \A q \in has(i) : r <= q
        info(i) == [name |-> name(i),
                    type |-> IF has(i) = {} THEN "string" ELSE rest[first(i)][i].type,
                    format |-> IF has(i) = {} THEN "none" ELSE rest[first(i)][i].format,
                    index |-> i - 1]
    IN [result |->
          [format |-> res.format \o [i \in 1..Len(header) |-> info(i)],
           header |-> IF o.header
                      THEN res.header \o [i \in 1..Len(header) |-> name(i)]
                      ELSE res.header,
           values |-> res.values],
        values |-> rest]

\* updateFormatCell that replaces the descriptor it widens by a new one
updateFormatCellReplace(format, cell, index) ==
  IF index >= Len(format)
  THEN Append(format, [name |-> ColumnName(index + 1), type |-> cell.type,
                       format |-> cell.format, index |-> index])
  ELSE IF format[index + 1].type = "string" /\ cell.type # "string"
  THEN [format EXCEPT ![index + 1] = [name |-> ColumnName(index + 1), type |-> cell.type,
                                      format |-> cell.format, index |-> index]]
  ELSE format

\* updateFormatCell that sets a column back to string when it meets a
\* non-empty string cell
updateFormatCellDemote(format, cell, index) ==
  IF index >= Len(format)
  THEN Append(format, [name |-> ColumnName(index + 1), type |-> cell.type,
                       format |-> cell.format, index |-> index])
  ELSE IF format[index + 1].type = "string" /\ cell.type # "string"
  THEN [format EXCEPT ![index + 1].type = cell.type, ![index + 1].format = cell.format]
  ELSE IF cell.type = "string" /\ cell.value.s # <<>>
  THEN [format EXCEPT ![index + 1].type = "string", ![index + 1].format = "none"]
  ELSE format

\* updateFormatCell that appends every new descriptor as a string column
updateFormatCellAppendString(format, cell, index) ==
  IF index >= Len(format)
  THEN Append(format, [name |-> ColumnName(index + 1), type |-> "string",
                       format |-> "none", index |-> index])
  ELSE IF format[index + 1].type = "string" /\ cell.type # "string"
  THEN [format EXCEPT ![index + 1].type = cell.type, ![index + 1].format = cell.format]
  ELSE format

\* updateFormatCell without the test that the descriptor is a string
updateFormatCellOverwrite(format, cell, index) ==
  IF index >= Len(format)
  THEN Append(format, [name |-> ColumnName(index + 1), type |-> cell.type,
                       format |-> cell.format, index |-> index])
  ELSE IF cell.type # "string"
  THEN [format EXCEPT ![index + 1].type = cell.type, ![index + 1].format = cell.format]
  ELSE format

\* The body of updateFormat for one cell (index is 0-based)
updateFormatCell(format, cell, index) ==
  IF index >= Len(format)
  THEN Append(format, [name |-> ColumnName(index + 1), type |-> cell.type,
                       format |-> cell.format, index |-> index])
  ELSE IF format[index + 1].type = "string" /\ cell.type # "string"
  THEN [format EXCEPT ![index + 1].type = cell.type, ![index + 1].format = cell.format]
  ELSE format

RECURSIVE updateFormatRow(_, _, _)
updateFormatRow(format, row, index) ==
  IF index >= Len(row) THEN format
  ELSE updateFormatRow(updateFormatCell(format, row[index + 1], index), row, index + 1)

RECURSIVE updateFormatRows(_, _)
updateFormatRows(format, newRows) ==
  IF newRows = <<>> THEN format
  ELSE updateFormatRows(updateFormatRow(format, Head(newRows), 0), Tail(newRows))

\* updateFormat(newRows) on the result object res
updateFormat(res, newRows) ==
  [res EXCEPT !.format = updateFormatRows(res.format, newRows)]

\* rows.map((row) => row.map((cell) => cell.value))
CellValues(rows) ==
  [r \in 1..Len(rows) |-> [c \in 1..Len(rows[r]) |-> rows[r][c].value]]

\* ------------------------------------------------------------------------
\* The streaming parser: the state of one parser instance as a value,
\* st = [buffer, formatInitialized, result], and processBuffer on it.
\* ------------------------------------------------------------------------
FreshState == [buffer |-> <<>>, formatInitialized |-> FALSE, result |-> EmptyResult]

\* The rows processBuffer builds from the text it processes
BufferRows(o, toProcess) ==
  LET lines == splitLines(toProcess)
      Kept(line) == ~SkipLine(o, line)
      kept == SelectSeq(lines, Kept)
      parsed == [i \in 1..Len(kept) |-> parseRow(o, kept[i])]
      NonEmpty(row) == Len(row) # 0
  IN detectDataTypes(o, SelectSeq(parsed, NonEmpty))

\* The schema step of processBuffer on a non-empty batch: the result
\* object after prepareHeaderData or updateFormat, and the rows to append
schemaStep(o, st, rows) ==
  IF ~st.formatInitialized
  THEN prepareHeaderData(o, st.result, rows)
  ELSE [result |-> updateFormat(st.result, rows), values |-> rows]

\* enqueueResult without the row-limit branch
enqueueResultNoLimit(o, buffer1, res2, hasController) ==
  [st |-> [buffer |-> buffer1, formatInitialized |-> TRUE, result |-> res2],
   emit |-> hasController,
   terminate |-> FALSE]

\* The end of processBuffer: res2 is the result after values.push(...);
\* enqueue a snapshot and terminate() when the row limit is reached
enqueueResult(o, buffer1, res2, hasController) ==
  LET limit == /\ hasController
               /\ o.maxRows # 0
               /\ Len(res2.values) >= o.maxRows
  IN [st |-> [buffer |-> IF limit THEN <<>> ELSE buffer1,
              formatInitialized |-> TRUE,
              result |-> res2],
      emit |-> hasController,
      terminate |-> limit]

appendRows(o, buffer1, step, hasController) ==
  enqueueResult(o, buffer1,
                [step.result EXCEPT !.values = @ \o CellValues(step.values)],
                hasController)

\* processRows with `rows.length >= 0` for `rows.length > 0`
processRowsAlways(o, st, buffer1, rows, hasController) ==
  appendRows(o, buffer1, schemaStep(o, st, rows), hasController)

\* processBuffer that enqueues the result when the batch has no row too
processRowsEmitsEmpty(o, st, buffer1, rows, hasController) ==
  IF rows = <<>>
  THEN [st |-> [st EXCEPT !.buffer = buffer1], emit |-> TRUE, terminate |-> FALSE]
  ELSE appendRows(o, buffer1, schemaStep(o, st, rows), hasController)

\* processBuffer from `if (rows.length > 0)` on; buffer1 is this.buffer
processRows(o, st, buffer1, rows, hasController) ==
  IF rows = <<>>
  THEN [st |-> [st EXCEPT !.buffer = buffer1], emit |-> FALSE, terminate |-> FALSE]
  ELSE appendRows(o, buffer1, schemaStep(o, st, rows), hasController)

\* processBuffer once the buffer is read up to its last newline (r)
processRead(o, st, flush, hasController, r) ==
  IF ~flush /\ (~r.found \/ r.processable = <<>>)
  THEN [st |-> st, emit |-> FALSE, terminate |-> FALSE]
  ELSE processRows(o, st,
                   IF flush THEN <<>> ELSE r.remaining,
                   BufferRows(o, IF flush THEN st.buffer ELSE r.processable),
                   hasController)

\* processBuffer(flush) with this.controller set or not: the state after
\* it, whether it enqueued a snapshot and whether it called terminate()
processBuffer(o, st, flush, hasController) ==
  processRead(o, st, flush, hasController, readUntilLastNewline(st.buffer))

\* handleChunk(chunk, controller)
handleChunk(o, st, chunk) ==
  processBuffer(o, [st EXCEPT !.buffer = @ \o chunk], FALSE, TRUE)

\* handleFlush that calls processBuffer() without the flush flag
handleFlushNoFlag(o, st) ==
  IF Len(st.buffer) > 0
  THEN processBuffer(o, st, FALSE, TRUE)
  ELSE [st |-> st, emit |-> FALSE, terminate |-> FALSE]

\* handleFlush that processes the buffer and leaves it as it was
handleFlushKeepsBuffer(o, st) ==
  IF Len(st.buffer) > 0
  THEN [processBuffer(o, st, TRUE, TRUE) EXCEPT !.st.buffer = st.buffer]
  ELSE [st |-> st, emit |-> FALSE, terminate |-> FALSE]

\* handleFlush(controller)
handleFlush(o, st) ==
  IF Len(st.buffer) > 0
  THEN processBuffer(o, st, TRUE, TRUE)
  ELSE [st |-> st, emit |-> FALSE, terminate |-> FALSE]

\* reset() that leaves this.buffer as it is
resetKeepsBuffer(st) ==
  [buffer |-> st.buffer, formatInitialized |-> FALSE, result |-> EmptyResult]

\* reset() that keeps the result object of the call before
resetKeepsResult(st) == [buffer |-> <<>>, formatInitialized |-> FALSE, result |-> st.result]

\* reset(): a new result object, an empty buffer, no schema
reset(st) == [buffer |-> <<>>, formatInitialized |-> FALSE, result |-> EmptyResult]

\* ------------------------------------------------------------------------
\* The batch parser.
\* ------------------------------------------------------------------------
\* parseInput(input): the loop index i counts the physical lines
parseInput(o, input) ==
  LET lines == splitLines(input)
      n == IF o.maxRows # 0 /\ Len(lines) > o.maxRows + 1
           THEN o.maxRows + 1 ELSE Len(lines)
      Kept(line) == ~SkipLine(o, line)
      kept == SelectSeq(SubSeq(lines, 1, n), Kept)
  IN detectDataTypes(o, [i \in 1..Len(kept) |-> parseRow(o, kept[i])])

\* The values parse() pushes for one row: its cells, then '' for every
\* header key that is not among the names of its cells
parseRowValues(header, row) ==
  LET name(c) == IF c <= Len(header) THEN header[c] ELSE ColumnName(c)
      keys == {name(c) : c \in 1..Len(row)}
      Missing(key) == key \notin keys
      missing == SelectSeq(header, Missing)
  IN [c \in 1..Len(row) |-> row[c].value]
       \o [i \in 1..Len(missing) |-> StringValue(<<>>)]

\* The loop of parse() over the rows left by prepareHeaderData (step)
parseValues(step) ==
  [step.result EXCEPT !.values =
     @ \o [r \in 1..Len(step.values) |-> parseRowValues(step.result.header, step.values[r])]]

\* parse(input) that widens the schema by its rows as the stream does
parseBodyUpdatesFormat(o, st, input) ==
  LET step == prepareHeaderData(o, st.result, parseInput(o, input))
  IN parseValues([step EXCEPT !.result = updateFormat(step.result, step.values)])

\* parse(input) after its reset(), from the state st: the result object
parseBody(o, st, input) ==
  parseValues(prepareHeaderData(o, st.result, parseInput(o, input)))

\* readFile(file, encoding): the promise resolves with the text of the
\* file (reader.onload) or rejects (reader.onerror)
readFile(file) == [ok |-> file.readable, content |-> file.text]

\* normalize(input) that answers a failed read with the empty text
normalizeEmptyOnError(input) ==
  IF ~input.file THEN [ok |-> TRUE, content |-> input.text]
  ELSE IF readFile(input).ok THEN readFile(input)
  ELSE [ok |-> TRUE, content |-> <<>>]

\* normalize(input): the string itself, or the outcome of readFile
normalize(input) ==
  IF ~input.file THEN [ok |-> TRUE, content |-> input.text]
  ELSE readFile(input)

\* The key of the cell at columnIndex (0-based) in toObject and parse:
\* header[columnIndex] || `column_${columnIndex + 1}`
KeyName(header, columnIndex) ==
  IF columnIndex < Len(header) /\ header[columnIndex + 1] # <<>>
  THEN header[columnIndex + 1]
  ELSE ColumnName(columnIndex + 1)

\* obj[name] = value on an object (a function from its keys)
SetKey(obj, name, value) ==
  [k \in (DOMAIN obj) \cup {name} |-> IF k = name THEN value ELSE obj[k]]

\* row.forEach((column, columnIndex) => { obj[name] = column; keys.add(name) })
RECURSIVE toObjectCells(_, _, _, _)
toObjectCells(header, row, columnIndex, obj) ==
  IF columnIndex >= Len(row) THEN obj
  ELSE toObjectCells(header, row, columnIndex + 1,
                     SetKey(obj, KeyName(header, columnIndex), row[columnIndex + 1]))

\* The header keys that are not among the keys of the cells get ''
toObjectMissing(header, obj) ==
  [k \in (DOMAIN obj) \cup {header[i] : i \in 1..Len(header)} |->
     IF k \in DOMAIN obj THEN obj[k] ELSE StringValue(<<>>)]

\* The object toObject builds for one row
toObjectRow(header, row) ==
  toObjectMissing(header, toObjectCells(header, row, 0, <<>>))

\* CSVParser.toObject(input)
toObject(input) ==
  [r \in 1..Len(input.values) |-> toObjectRow(input.header, input.values[r])]

\* ------------------------------------------------------------------------
\* Inputs.
\* ------------------------------------------------------------------------
\* The options of the parser instance (CSVParserOptions): the defaults,
\* with header and maxRows chosen by the caller.
\* new CSVParserOptions(init) that keeps dateFormats as the caller gave it
CSVParserOptionsNoDefault(init) ==
  [delimiter |-> ",", quote |-> "\"",
   comment |-> IF "comment" \in DOMAIN init THEN init.comment ELSE <<"#">>,
   header |-> init.header, maxRows |-> init.maxRows,
   dateFormats |-> init.dateFormats]

\* new CSVParserOptions(init): init.x ?? default, for the options the
\* caller leaves out (delimiter, quote, comment, dateFormats)
CSVParserOptions(init) ==
  [delimiter |-> ",", quote |-> "\"",
   comment |-> IF "comment" \in DOMAIN init THEN init.comment ELSE <<"#">>,
   header |-> init.header, maxRows |-> init.maxRows,
   dateFormats |-> IF init.dateFormats = Undefined
                   THEN DefaultDateFormats ELSE init.dateFormats]

OptionSets ==
  { CSVParserOptions([header |-> h, maxRows |-> n, dateFormats |-> Undefined])
    : h \in BOOLEAN, n \in 0..MaxRowsOpt }

\* new CSVParser({comment: ''}): the comment option given as the empty
\* string, with and without header and maxRows
EmptyCommentOptionSets ==
  { CSVParserOptions([header |-> h, maxRows |-> n, dateFormats |-> Undefined,
                      comment |-> <<>>])
    : h \in BOOLEAN, n \in 0..MaxRowsOpt }

\* The texts handed to stream() and parse():
\*   'h,k\na,1\nb,2'        header, two rows, the last line unterminated
\*   'a\n1\ntrue\nb\n'      one column: string, number, boolean, string cells
\*   'h\r\n1\r\n2'          CR LF terminators
\*   '#c\nh\n\n1\n'         a comment line and a blank line
\*   'h,k\n1\n1,2,3\n'      a short row and a long row
\*   '"a,b"\n"c""d"'        quoted fields
\*   '\na\n'                a terminator first
\*   'h\n1\n2\n3\n4'        five lines, the last unterminated
\*   'h\n1\n2\n3\n4\n'      five terminated lines
\*   ' \n#\n'               skipped lines only
\*   'a'                    one unterminated line
\*   'a\n#'                 an unterminated comment line last
\*   ''                     the empty input (a stream without fragments)
\*   '1\r2\r'               CR terminators
\*   '0,k\n,\n1,2'          a header cell that reads as a number, empty cells
\*   'a,a\n1\n1,2,3'        a repeated header cell, a short and a long row
\*   ' #\nh\n \n,\n1'       an indented comment first, a blank line, a line of one delimiter
Inputs ==
  { <<"h", ",", "k", LF, "a", ",", "1", LF, "b", ",", "2">>,
    <<"a", LF, "1", LF, "t", "r", "u", "e", LF, "b", LF>>,
    <<"h", CR, LF, "1", CR, LF, "2">>,
    <<"#", "c", LF, "h", LF, LF, "1", LF>>,
    <<"h", ",", "k", LF, "1", LF, "1", ",", "2", ",", "3", LF>>,
    <<"\"", "a", ",", "b", "\"", LF, "\"", "c", "\"", "\"", "d", "\"">>,
    <<LF, "a", LF>>,
    <<"h", LF, "1", LF, "2", LF, "3", LF, "4">>,
    <<"h", LF, "1", LF, "2", LF, "3", LF, "4", LF>>,
    <<SP, LF, "#", LF>>,
    <<"a">>,
    <<"a", LF, "#">>,
    <<>>,
    <<"1", CR, "2", CR>>,
    <<"0", ",", "k", LF, ",", LF, "1", ",", "2">>,
    <<"a", ",", "a", LF, "1", LF, "1", ",", "2", ",", "3">>,
    <<SP, "#", LF, "h", LF, SP, LF, ",", LF, "1">> }

\* The texts handed to parse() alone:
\*   'column_2\n1,2'         a header cell named like a synthesized column
\*   'h,k\n1\n1,2,3'        a short row and a long row
\*   '#c\nh\n\n1\n2\n3'     comment and blank lines before and between rows
\*   '1\n2\n3'              three rows
\*   'a,a\n1,2'              a repeated header cell
\*   'h,k,m\n1,2,3\n4,5,6\n7,8,9'  three full rows
\*   'h\n1\n\n2\n#\n3'      a blank and a comment line between rows
\*   ''                      the empty input
\*   'd,t,s\n1990-01-01,10:30:00,2023-10-27 10:00:00'  a date, a time, a datetime
BatchInputs ==
  { <<"c", "o", "l", "u", "m", "n", "_", "2", LF, "1", ",", "2">>,
    <<"h", ",", "k", LF, "1", LF, "1", ",", "2", ",", "3">>,
    <<"#", "c", LF, "h", LF, LF, "1", LF, "2", LF, "3">>,
    <<"1", LF, "2", LF, "3">>,
    <<"a", ",", "a", LF, "1", ",", "2">>,
    <<"h", ",", "k", ",", "m", LF, "1", ",", "2", ",", "3", LF,
      "4", ",", "5", ",", "6", LF, "7", ",", "8", ",", "9">>,
    <<"h", LF, "1", LF, LF, "2", LF, "#", LF, "3">>,
    <<"d", ",", "t", ",", "s", LF, "1", "9", "9", "0", "-", "0", "1", "-", "0", "1", ",", "1", "0", ":", "3", "0", ":", "0", "0", ",", "2", "0", "2", "3", "-", "1", "0", "-", "2", "7", SP, "1", "0", ":", "0", "0", ":", "0", "0">>,
    <<>> }

\* The arguments of direct calls of detectDataType: null, empty and blank
\* texts, boolean and number literals, texts of the shapes of times, dates
\* and datetimes (in and out of range), other texts
DetectValues ==
  { Null,
    <<>>,
    <<SP>>,
    <<"t", "r", "u", "e">>,
    <<"T", "R", "U", "E">>,
    <<"F", "a", "l", "s", "e">>,
    <<"1", "2", "3">>,
    <<"0">>,
    <<"-", "1", "0">>,
    <<"0", ".", "0">>,
    <<"1", "2", "3", ".", "4", "5">>,
    <<".", "5">>,
    <<"1", "e", "3">>,
    <<"1", ".", "5", "e", "1">>,
    <<"1", "e", "-", "1">>,
    <<SP, "4", "2", SP>>,
    <<"1", "0", ":", "3", "0", ":", "0", "0">>,
    <<"1", "0", ":", "3", "0">>,
    <<"1", "0", ":", "3", "0", ":", "0", "0", ".", "1", "2", "3">>,
    <<"2", "5", ":", "6", "1">>,
    <<"2", "0", "2", "3", "-", "1", "0", "-", "2", "7">>,
    <<"1", "0", "/", "2", "7", "/", "2", "0", "2", "3">>,
    <<"2", "7", ".", "1", "0", ".", "2", "0", "2", "3">>,
    <<"9", "9", ".", "9", "9", ".", "9", "9", "9", "9">>,
    <<"2", "0", "2", "3", "-", "1", "0", "-", "2", "7", SP, "1", "0", ":", "3", "0", ":", "0", "0">>,
    <<"2", "0", "2", "3", "-", "1", "0", "-", "2", "7", "T", "1", "0", ":", "3", "0", ":", "0", "0", "Z">>,
    <<"2", "0", "2", "3", "-", "1", "0", "-", "2", "7", "T", "1", "0", ":", "3", "0", ":", "0", "0", ".", "1", "2", "3", "Z">>,
    <<"2", "0", "2", "3", "-", "1", "3", "-", "0", "1", "T", "1", "0", ":", "3", "0", ":", "0", "0", "Z">>,
    <<"2", "0", "2", "4", "/", "0", "1", "/", "1", "5">>,
    <<"2", "0", "2", "4">>,
    <<"h", "e", "l", "l", "o">>,
    <<"1", "2", "3", "a", "b", "c">> }

\* A caller's own dateFormats, as in the test 'should handle custom date
\* formats': formats under which one text matches a time and a date
\* pattern ('10:30'), and a number and a date pattern ('2024')
CustomDateFormats ==
  [date |-> <<<<"Y", "Y", "Y", "Y", "/", "M", "M", "/", "D", "D">>, <<"Y", "Y", "Y", "Y">>, <<"M", "M", ":", "D", "D">>>>,
   time |-> <<<<"H", "H", ":", "m", "m">>>>,
   datetime |-> <<<<"Y", "Y", "Y", "Y", "-", "M", "M", "-", "D", "D", SP, "H", "H", ":", "m", "m", ":", "s", "s">>>>]

\* The dateFormats arguments of direct calls of detectDataType
DetectFormats == {Undefined, DefaultDateFormats, CustomDateFormats}

\* The lines handed to parseRow: every text of at most MaxLineLen
\* characters over a letter, the delimiter and the quote, and the line
\* "a,b","c""d"
LineAlphabet == {"a", ",", "\""}

TokenLines ==
  UNION {[1..n -> LineAlphabet] : n \in 0..MaxLineLen}
    \cup {<<"\"", "a", ",", "b", "\"", ",", "\"", "c", "\"", "\"", "d", "\"">>}

\* The inputs of parse() calls that are not awaited one by one: a text
\* given as a string, as a File that can be read, as a File that cannot
\*   'h\n1'   'k,m\n2,3'   ''
AsyncInputs ==
  { [text |-> t, file |-> f, readable |-> r] :
      t \in {<<"h", LF, "1">>, <<"k", ",", "m", LF, "2", ",", "3">>, <<>>},
      f \in BOOLEAN, r \in BOOLEAN } \ { [text |-> t, file |-> FALSE, readable |-> FALSE] :
      t \in {<<"h", LF, "1">>, <<"k", ",", "m", LF, "2", ",", "3">>, <<>>} }

\* The texts of two streams that run on one instance at the same time
ConcInputs ==
  { <<"h", LF, "a", LF, "b">>,
    <<"1", LF, "2", LF>> }

\* ------------------------------------------------------------------------
\* State.
\* ------------------------------------------------------------------------
VARIABLES
  options,            \* this.options
  buffer,             \* this.buffer
  formatInitialized,  \* this.formatInitialized
  result,             \* this.result: the heap object it points at
  controller,         \* this.controller: the stream it belongs to, 0 = undefined
  heap,               \* the result objects: heap[g] = [format, values, header]
  streams,            \* the TransformStreams made by stream() and their readers
  returned,           \* what parse() returned: [input, ref]
  sessions,           \* number of stream()/parse() calls so far
  prevEnd,            \* how the session before the current one ended
  objects,            \* what toObject returned for the result of parse()
  previous,           \* the result the caller got from the parse() before: [input, result]
  detected,           \* a direct call of detectDataType: [value, dateFormats, out]
  fields,             \* a call of parseRow: [line, out]
  calls               \* the parse() calls started and not awaited one by one:
                      \* [input, status, ref], ref the object the promise resolved to

vars == <<options, buffer, formatInitialized, result, controller, heap,
          streams, returned, sessions, prevEnd, objects, previous, detected, fields, calls>>

\* The instance fields as a value
InstanceState ==
  [buffer |-> buffer, formatInitialized |-> formatInitialized, result |-> heap[result]]

\* A stream made by stream(input): the text its source still holds, the
\* state of the TransformStream, the snapshots its reader has received
\* (ref: the result object whose arrays the snapshot shares; copy: the
\* content at the time of the enqueue, what structuredClone would keep),
\* for reference a fresh parser instance with the same options that is fed
\* the same fragments and nothing else (shadow), and the kinds of fragment
\* boundaries its source has made so far (cuts).
NewStream(input) ==
  [input |-> input, pending |-> input, status |-> "open", emitted |-> <<>>,
   shadow |-> [st |-> FreshState, emitted |-> <<>>, status |-> "open"],
   cuts |-> {}]

\* The kinds of the fragment boundary after the first pos characters of
\* input: inside a line, between the CR and the LF of one terminator,
\* inside a quoted field
CutKinds(o, input, pos) ==
  IF pos >= Len(input) THEN {}
  ELSE LET nl == {i \in 1..pos : input[i] \in {LF, CR}}
           quotes == {i \in 1..pos : input[i] = o.quote /\ \A j \in nl : j < i}
       IN (IF input[pos] \notin {LF, CR} THEN {"line"} ELSE {})
          \cup (IF input[pos] = CR /\ input[pos + 1] = LF THEN {"crlf"} ELSE {})
          \cup (IF Cardinality(quotes) % 2 = 1 THEN {"quote"} ELSE {})

ShadowStep(sh, out, closing) ==
  IF sh.status # "open" THEN sh
  ELSE [st |-> out.st,
        emitted |-> IF out.emit THEN Append(sh.emitted, out.st.result) ELSE sh.emitted,
        status |-> IF out.terminate THEN "terminated"
                   ELSE IF closing THEN "closed" ELSE "open"]

\* The instance after new CSVParser(init), for the option sets of optionSets
Constructed(optionSets) ==
  /\ options \in optionSets
  /\ buffer = <<>>
  /\ formatInitialized = FALSE
  /\ heap = <<EmptyResult>>
  /\ result = 1
  /\ controller = 0
  /\ streams = <<>>
  /\ returned = <<>>
  /\ sessions = 0
  /\ prevEnd = "none"
  /\ objects = <<>>
  /\ previous = <<>>
  /\ detected = <<>>
  /\ fields = <<>>
  /\ calls = <<>>

Init == Constructed(OptionSets)

InitEmptyComment == Constructed(EmptyCommentOptionSets)

NoneOpen == \A s \in 1..Len(streams) : streams[s].status # "open"

\* How the current session ended, seen from the call that starts the next
EndOfSession ==
  IF streams = <<>> THEN (IF returned = <<>> THEN "none" ELSE "parsed")
  ELSE LET last == streams[Len(streams)]
       IN IF last.status = "cancelled" /\ buffer # <<>> THEN "abandoned"
          ELSE last.status

\* A handler ran for stream s with outcome out: the instance fields and
\* the stream after it (pending1: what its source still holds)
Deliver(s, pending1, out, shadow1, closing) ==
  /\ buffer' = out.st.buffer
  /\ formatInitialized' = out.st.formatInitialized
  /\ heap' = [heap EXCEPT ![result] = out.st.result]
  /\ controller' = s
  /\ streams' = [streams EXCEPT ![s] =
       [input |-> @.input,
        pending |-> pending1,
        status |-> IF out.terminate THEN "terminated"
                   ELSE IF closing THEN "closed" ELSE "open",
        emitted |-> IF out.emit
                    THEN Append(@.emitted, [ref |-> result, copy |-> out.st.result])
                    ELSE @.emitted,
        shadow |-> shadow1,
        cuts |-> @.cuts \cup CutKinds(options, @.input, Len(@.input) - Len(pending1))]]
  /\ UNCHANGED <<options, result, returned, sessions, prevEnd, objects,
                 previous, detected, fields, calls>>

\* transform: the next fragment of stream s, the first k characters pending
HandleChunk(s, k) ==
  /\ streams[s].status = "open"
  /\ k \in 1..Len(streams[s].pending)
  /\ Deliver(s,
             SubSeq(streams[s].pending, k + 1, Len(streams[s].pending)),
             handleChunk(options, InstanceState, SubSeq(streams[s].pending, 1, k)),
             ShadowStep(streams[s].shadow,
                        handleChunk(options, streams[s].shadow.st,
                                    SubSeq(streams[s].pending, 1, k)),
                        FALSE),
             FALSE)

\* flush: the source of stream s is exhausted
HandleFlush(s) ==
  /\ streams[s].status = "open"
  /\ streams[s].pending = <<>>
  /\ Deliver(s,
             streams[s].pending,
             handleFlush(options, InstanceState),
             ShadowStep(streams[s].shadow, handleFlush(options, streams[s].shadow.st), TRUE),
             TRUE)

\* The reader of stream s cancels: no handler runs for it any more
Cancel(s) ==
  /\ streams[s].status = "open"
  /\ streams' = [streams EXCEPT ![s].status = "cancelled"]
  /\ UNCHANGED <<options, buffer, formatInitialized, result, controller, heap,
                 returned, sessions, prevEnd, objects, previous, detected, fields, calls>>

\* stream(input) while no earlier stream of the instance is open.  The
\* objects of the earlier session are dropped with it.
Stream(inputs) ==
  /\ sessions < MaxSessions
  /\ NoneOpen
  /\ \E input \in inputs :
       LET st == reset(InstanceState)
       IN /\ buffer' = st.buffer
          /\ formatInitialized' = st.formatInitialized
          /\ heap' = <<st.result>>
          /\ result' = 1
          /\ controller' = 0
          /\ streams' = <<NewStream(input)>>
          /\ returned' = <<>>
          /\ sessions' = sessions + 1
          /\ prevEnd' = EndOfSession
          /\ objects' = <<>>
          /\ previous' = <<>>
          /\ UNCHANGED <<options, detected, fields, calls>>

\* stream(input) while an earlier stream of the instance is still open
StreamWhileActive(inputs) ==
  /\ sessions < MaxSessions
  /\ ~NoneOpen
  /\ \E input \in inputs :
       LET st == reset(InstanceState)
       IN /\ buffer' = st.buffer
          /\ formatInitialized' = st.formatInitialized
          /\ heap' = Append(heap, st.result)
          /\ result' = Len(heap) + 1
          /\ controller' = 0
          /\ streams' = Append(streams, NewStream(input))
          /\ sessions' = sessions + 1
          /\ UNCHANGED <<options, returned, prevEnd, objects, previous, detected, fields, calls>>

\* parse(input) with a string, while no stream of the instance is open
Parse(inputs) ==
  /\ sessions < MaxSessions
  /\ NoneOpen
  /\ \E input \in inputs :
       LET st == reset(InstanceState)
       IN /\ buffer' = st.buffer
          /\ formatInitialized' = st.formatInitialized
          /\ heap' = <<parseBody(options, st, input)>>
          /\ result' = 1
          /\ controller' = 0
          /\ streams' = <<>>
          /\ returned' = <<[input |-> input, ref |-> 1]>>
          /\ sessions' = sessions + 1
          /\ prevEnd' = EndOfSession
          /\ objects' = <<>>
          /\ previous' = [i \in 1..Len(returned) |->
                            [input |-> returned[i].input, result |-> heap[returned[i].ref]]]
          /\ UNCHANGED <<options, detected, fields, calls>>

\* Call c of parse() is suspended at `await this.normalize(input)`
Pending(c) == calls[c].status = "pending"

\* The continuation of call c can run now: the continuations of calls
\* with a string run in the order of the calls, before any file is read
CanContinue(c) ==
  IF calls[c].input.file
  THEN \A d \in 1..Len(calls) : ~(Pending(d) /\ ~calls[d].input.file)
  ELSE \A d \in 1..(c - 1) : ~(Pending(d) /\ ~calls[d].input.file)

\* parse(input) up to its await: reset(), then normalize(input) is started
ParseStart(inputs) ==
  /\ Len(calls) < MaxCalls
  /\ NoneOpen
  /\ \E input \in inputs :
       LET st == reset(InstanceState)
       IN /\ buffer' = st.buffer
          /\ formatInitialized' = st.formatInitialized
          /\ heap' = Append(heap, st.result)
          /\ result' = Len(heap) + 1
          /\ controller' = 0
          /\ calls' = Append(calls, [input |-> input, status |-> "pending", ref |-> 0])
  /\ UNCHANGED <<options, streams, returned, sessions, prevEnd, objects, previous,
                 detected, fields>>

\* parse(input) from its await on: the promise of normalize has settled;
\* a rejection rejects the call, a text is parsed into this.result, which
\* the call returns
ParseContinue(c) ==
  /\ Pending(c)
  /\ CanContinue(c)
  /\ LET value == normalize(calls[c].input)
     IN IF value.ok
        THEN /\ heap' = [heap EXCEPT ![result] = parseBody(options, InstanceState, value.content)]
             /\ calls' = [calls EXCEPT ![c].status = "resolved", ![c].ref = result]
        ELSE /\ heap' = heap
             /\ calls' = [calls EXCEPT ![c].status = "rejected"]
  /\ UNCHANGED <<options, buffer, formatInitialized, result, controller,
                 streams, returned, sessions, prevEnd, objects, previous, detected, fields>>

\* CSVParser.toObject(result) on the result parse() returned
ToObject ==
  /\ returned # <<>>
  /\ objects = <<>>
  /\ objects' = <<toObject(heap[returned[1].ref])>>
  /\ UNCHANGED <<options, buffer, formatInitialized, result, controller, heap,
                 streams, returned, sessions, prevEnd, previous, detected, fields, calls>>

\* detectDataType(value, dateFormats) called on its own
DetectDataType(values, formats) ==
  /\ \E value \in values, dateFormats \in formats :
       detected' = <<[value |-> value, dateFormats |-> dateFormats,
                      out |-> detectDataType(value, dateFormats)]>>
  /\ UNCHANGED <<options, buffer, formatInitialized, result, controller, heap,
                 streams, returned, sessions, prevEnd, objects, previous, fields, calls>>

\* parseRow(line) on the parser instance
ParseRow(lines) ==
  /\ \E line \in lines :
       fields' = <<[line |-> line, out |-> parseRow(options, line)]>>
  /\ UNCHANGED <<options, buffer, formatInitialized, result, controller, heap,
                 streams, returned, sessions, prevEnd, objects, previous, detected, calls>>

\* One session at a time, as the parser is meant to be used
Next ==
  \/ Stream(Inputs)
  \/ Parse(Inputs)
  \/ \E s \in 1..Len(streams) : \E k \in 1..Len(streams[s].pending) : HandleChunk(s, k)
  \/ \E s \in 1..Len(streams) : HandleFlush(s)
  \/ \E s \in 1..Len(streams) : Cancel(s)

Spec == Init /\ [][Next]_vars

\* A caller that starts a stream while another one is still being fed
NextConc ==
  \/ Stream(ConcInputs)
  \/ StreamWhileActive(ConcInputs)
  \/ \E s \in 1..Len(streams) : \E k \in 1..Len(streams[s].pending) : HandleChunk(s, k)
  \/ \E s \in 1..Len(streams) : HandleFlush(s)

SpecConc == Init /\ [][NextConc]_vars

\* A caller of the batch interface: parse(), then toObject on its result
NextBatch ==
  \/ Parse(BatchInputs)
  \/ ToObject

SpecBatch == Init /\ [][NextBatch]_vars

\* A caller that starts parse() calls without awaiting each one
NextAsync ==
  \/ ParseStart(AsyncInputs)
  \/ \E c \in 1..Len(calls) : ParseContinue(c)

SpecAsync == Init /\ [][NextAsync]_vars

\* The texts of the streams that are followed to their end
\*   'a\n1\ntrue\nb\n'   'h\r\n1\r\n2'   '\na\n'   'h\n1\n2\n3\n4'   ' \n#\n'   ''
LiveInputs ==
  { <<"a", LF, "1", LF, "t", "r", "u", "e", LF, "b", LF>>,
    <<"h", CR, LF, "1", CR, LF, "2">>,
    <<LF, "a", LF>>,
    <<"h", LF, "1", LF, "2", LF, "3", LF, "4">>,
    <<SP, LF, "#", LF>>,
    <<>> }

\* A stream whose source delivers its text in finitely many fragments and
\* then ends, and whose reader reads to the end: the runtime calls
\* transform for every fragment the source has and flush once it has none
NextLive ==
  \/ Stream(LiveInputs)
  \/ \E s \in 1..Len(streams) : \E k \in 1..Len(streams[s].pending) : HandleChunk(s, k)
  \/ \E s \in 1..Len(streams) : HandleFlush(s)

\* The runtime has a fragment of the source to hand to transform
SourceHasFragment ==
  \E s \in 1..Len(streams) : streams[s].status = "open" /\ streams[s].pending # <<>>

\* The source is exhausted and flush has not been called yet
SourceExhausted ==
  \E s \in 1..Len(streams) : streams[s].status = "open" /\ streams[s].pending = <<>>

\* Weak fairness of the two handler calls, WF_vars(A) written out as
\* <>[](ENABLED <<A>>_vars) => []<><<A>>_vars with the enabling condition of
\* each call given by its guard: a call always changes the stream (pending
\* shrinks, or the status leaves "open"), so the guard is the enabling
\* condition
SpecLive ==
  /\ Init
  /\ [][NextLive]_vars
  /\ (<>[]SourceHasFragment =>
        []<><<\E s \in 1..Len(streams) : \E k \in 1..Len(streams[s].pending) : HandleChunk(s, k)>>_vars)
  /\ (<>[]SourceExhausted =>
        []<><<\E s \in 1..Len(streams) : HandleFlush(s)>>_vars)

\* The texts handed to a parser made with comment '':
\*   'h\n1'          header and one row
\*   'a,b\n1,2\n'    two columns, terminated
\*   ' \nx'          a blank line, then one line
\*   ' \n'           nothing but a blank line
EmptyCommentInputs ==
  { <<"h", LF, "1">>,
    <<"a", ",", "b", LF, "1", ",", "2", LF>>,
    <<SP, LF, "x">>,
    <<SP, LF>> }

\* One session at a time on a parser made with comment ''
NextEmptyComment ==
  \/ Stream(EmptyCommentInputs)
  \/ Parse(EmptyCommentInputs)
  \/ \E s \in 1..Len(streams) : \E k \in 1..Len(streams[s].pending) : HandleChunk(s, k)
  \/ \E s \in 1..Len(streams) : HandleFlush(s)

SpecEmptyComment == InitEmptyComment /\ [][NextEmptyComment]_vars

\* The type detector on its own
NextDetect == DetectDataType(DetectValues, DetectFormats)

SpecDetect == Init /\ [][NextDetect]_vars

\* The row tokenizer on its own
NextTokens == ParseRow(TokenLines)

SpecTokens == Init /\ [][NextTokens]_vars

\* ------------------------------------------------------------------------
\* Properties.
\* ------------------------------------------------------------------------
IsPrefix(a, b) == Len(a) <= Len(b) /\ SubSeq(b, 1, Len(a)) = a

StreamIds == 1..Len(streams)

\* The snapshots the reader of stream s has received, as they were enqueued
Snapshots(s) == [i \in 1..Len(streams[s].emitted) |-> streams[s].emitted[i].copy]

\* Snapshot b does not narrow or change a non-string type of snapshot a
TypesKept(a, b) ==
  \A k \in 1..Len(a.format) :
    k <= Len(b.format) =>
      (a.format[k].type = "string" \/ a.format[k].type = b.format[k].type)

\* Stream s took a fragment / was flushed in the step
ChunkStep(s) ==
  /\ sessions' = sessions
  /\ s <= Len(streams')
  /\ Len(streams'[s].pending) < Len(streams[s].pending)

FlushStep(s) ==
  /\ sessions' = sessions
  /\ s <= Len(streams')
  /\ streams[s].status = "open"
  /\ streams[s].pending = <<>>
  /\ streams'[s].status \in {"closed", "terminated"}

\* C1: consecutive snapshots of one streaming session: the rows of the
\* earlier one are a prefix of the rows of the later one, and every column
\* both have keeps its type unless that type was string.
C1_SnapshotsMonotonic ==
  \A s \in StreamIds :
    \A i \in 1..(Len(streams[s].emitted) - 1) :
      /\ IsPrefix(Snapshots(s)[i].values, Snapshots(s)[i + 1].values)
      /\ TypesKept(Snapshots(s)[i], Snapshots(s)[i + 1])

\* C1 witness: a column went from string to number between two snapshots,
\* and a later snapshot met a string cell in that column and kept number.
C1_Witness ==
  \E s \in StreamIds :
    /\ Len(streams[s].emitted) >= 3
    /\ Snapshots(s)[1].format[1].type = "string"
    /\ Snapshots(s)[2].format[1].type = "number"
    /\ Snapshots(s)[3].format[1].type = "number"
    /\ Len(Snapshots(s)[3].values) > Len(Snapshots(s)[2].values)
    /\ Snapshots(s)[3].values[Len(Snapshots(s)[3].values)][1].k # "number"

\* The number of data rows the text encodes under the options
DataRowCount(o, input) ==
  IF o.header /\ BufferRows(o, input) # <<>>
  THEN Len(BufferRows(o, input)) - 1
  ELSE Len(BufferRows(o, input))

\* C2: with maxRows = n >= 1 and an input of more than n data rows, no
\* snapshot holds more than n rows, and the last snapshot of the ended
\* session holds exactly n rows.
C2_RowLimitExact ==
  \A s \in StreamIds :
    (options.maxRows >= 1 /\ DataRowCount(options, streams[s].input) > options.maxRows) =>
      /\ \A i \in 1..Len(streams[s].emitted) :
           Len(Snapshots(s)[i].values) <= options.maxRows
      /\ streams[s].status \in {"closed", "terminated"} =>
           /\ streams[s].emitted # <<>>
           /\ Len(Snapshots(s)[Len(streams[s].emitted)].values) = options.maxRows

\* C3: once a snapshot whose row count has reached maxRows is enqueued the
\* stream is terminated and the buffer is emptied; a terminated stream
\* takes no further fragment and receives no further snapshot.
C3_TerminatedForGood ==
  [][\A s \in StreamIds :
       (sessions' = sessions /\ s <= Len(streams')) =>
         /\ streams[s].status = "terminated" => streams'[s] = streams[s]
         /\ ( /\ options.maxRows # 0
              /\ Len(streams'[s].emitted) > Len(streams[s].emitted)
              /\ Len(streams'[s].emitted[Len(streams'[s].emitted)].copy.values)
                   >= options.maxRows )
            => (streams'[s].status = "terminated" /\ buffer' = <<>>)]_vars

\* C3 witness: a terminated stream whose source still holds fragments
C3_Witness ==
  \E s \in StreamIds :
    /\ streams[s].status = "terminated"
    /\ streams[s].pending # <<>>
    /\ buffer = <<>>
    /\ Len(Snapshots(s)[Len(streams[s].emitted)].values) >= options.maxRows

\* The result of the whole text taken as one batch of lines
WholeTextResult(o, input) ==
  processBuffer(o, [FreshState EXCEPT !.buffer = input], TRUE, TRUE).st.result

\* C4: without maxRows the final snapshot of a completed stream has the
\* header and the rows of the whole text, however the text was cut into
\* fragments: one row per non-skipped line, in order.
C4_SplitIndependent ==
  \A s \in StreamIds :
    (options.maxRows = 0 /\ streams[s].status = "closed") =>
      IF streams[s].emitted = <<>>
      THEN WholeTextResult(options, streams[s].input) = EmptyResult
      ELSE /\ Snapshots(s)[Len(streams[s].emitted)].header
                = WholeTextResult(options, streams[s].input).header
           /\ Snapshots(s)[Len(streams[s].emitted)].values
                = WholeTextResult(options, streams[s].input).values

\* C4 witness: a completed stream whose fragments were cut inside a line,
\* inside a quoted field or between a CR and its LF, and that has rows
C4_Witness ==
  \E s \in StreamIds :
    /\ options.maxRows = 0
    /\ streams[s].status = "closed"
    /\ streams[s].cuts \cap {"quote", "crlf"} # {}
    /\ "line" \in streams[s].cuts
    /\ Len(streams[s].emitted) >= 2
    /\ Len(Snapshots(s)[Len(streams[s].emitted)].values) >= 2

\* The rows the text adds to the result of an instance
NewValues(o, established, text) ==
  CellValues(IF established \/ ~o.header
             THEN BufferRows(o, text)
             ELSE Tail(BufferRows(o, text)))

FedText(s) ==
  buffer \o SubSeq(streams[s].pending, 1,
                   Len(streams[s].pending) - Len(streams'[s].pending))

\* Some terminated line of the text is not skipped
CompletesLine(o, text) ==
  \E i \in 1..(Len(splitLines(text)) - 1) : ~SkipLine(o, splitLines(text)[i])

\* C6: a fragment enqueues one snapshot when it completes a line that is
\* not skipped and none otherwise; when the buffer and the fragment hold no
\* terminator, nothing is enqueued and the fragment is buffered whole.
C6_OneSnapshotPerFragment ==
  [][\A s \in StreamIds :
       ChunkStep(s) =>
         /\ Len(streams'[s].emitted) - Len(streams[s].emitted)
              = IF CompletesLine(options, FedText(s)) THEN 1 ELSE 0
         /\ (\A i \in 1..Len(FedText(s)) : FedText(s)[i] \notin {LF, CR}) =>
              (streams'[s].emitted = streams[s].emitted /\ buffer' = FedText(s))]_vars

\* C6 witness: an open stream that has received a snapshot and now holds
\* the text of a fragment that ended inside a line
C6_Witness ==
  \E s \in StreamIds :
    /\ streams[s].status = "open"
    /\ "line" \in streams[s].cuts
    /\ Len(streams[s].emitted) >= 1
    /\ buffer # <<>>
    /\ \A i \in 1..Len(buffer) : buffer[i] \notin {LF, CR}

\* C7: what the reader sees through a snapshot it holds (the arrays the
\* snapshot points at) stays what it was when the snapshot was enqueued.
C7_SnapshotFrozen ==
  \A s \in StreamIds :
    \A i \in 1..Len(streams[s].emitted) :
      heap[streams[s].emitted[i].ref] = streams[s].emitted[i].copy

\* Every row holds a value for every header entry
RowsCoverHeader(res) ==
  \A r \in 1..Len(res.values) : Len(res.values[r]) >= Len(res.header)

\* C8: in every batch result and every streaming snapshot each row is at
\* least as long as the header.
C8_RowsPadded ==
  /\ \A i \in 1..Len(returned) : RowsCoverHeader(heap[returned[i].ref])
  /\ \A s \in StreamIds :
       \A i \in 1..Len(streams[s].emitted) : RowsCoverHeader(Snapshots(s)[i])

\* The session of stream s runs as on a fresh instance
AsFresh(s) ==
  /\ Snapshots(s) = streams[s].shadow.emitted
  /\ streams[s].status # "cancelled" => streams[s].status = streams[s].shadow.status
  /\ (controller = s /\ streams[s].status = "open") =>
       InstanceState = streams[s].shadow.st

\* C9: a session started on an instance whose previous session has ended
\* gives what a fresh instance with the same options gives on the same
\* input: the snapshots of stream(), the result of parse().
C9_ReuseIsFresh ==
  sessions >= 2 =>
    /\ \A s \in StreamIds : AsFresh(s)
    /\ \A i \in 1..Len(returned) :
         heap[returned[i].ref] = parseBody(options, FreshState, returned[i].input)
    /\ (streams = <<>> \/ controller = 0) =>
         (buffer = <<>> /\ formatInitialized = FALSE)

\* C9 witness: the second session, started after a stream was abandoned
\* with unterminated text in the buffer, has completed with snapshots
C9_Witness ==
  /\ sessions = 2
  /\ prevEnd = "abandoned"
  /\ \E s \in StreamIds :
       /\ streams[s].status = "closed"
       /\ Len(streams[s].emitted) >= 2

\* C10: a stream of an instance is not disturbed by a later stream() call
\* on the instance: either the call is refused or each stream gives the
\* snapshots it gives alone.
C10_SessionsIsolated ==
  \A s \in StreamIds : Snapshots(s) = streams[s].shadow.emitted

\* The rows the step of stream s puts through the line pipeline
StepRows(s) ==
  IF ChunkStep(s)
  THEN IF readUntilLastNewline(FedText(s)).found
       THEN BufferRows(options, readUntilLastNewline(FedText(s)).processable)
       ELSE <<>>
  ELSE BufferRows(options, buffer)

\* The cells the rows have at column k (1-based), in row order
CellsAt(rows, k) == [i \in 1..Len(rows) |-> rows[i][k]]

ColumnCells(rows, k) ==
  LET Has(row) == Len(row) >= k
  IN CellsAt(SelectSeq(rows, Has), k)

\* The longest row
Width(rows) ==
  IF rows = <<>> THEN 0
  ELSE CHOOSE n \in {Len(rows[r]) : r \in 1..Len(rows)} :
         \A r \in 1..Len(rows) : Len(rows[r]) <= n

\* The descriptor d after it has met the cells: unchanged when it is not
\* a string column or no cell is a non-string, else with the type and the
\* sub-format of the first non-string cell
Merged(d, cells) ==
  LET ns == {i \in 1..Len(cells) : cells[i].type # "string"}
  IN IF d.type # "string" \/ ns = {} THEN d
     ELSE [d EXCEPT !.type = cells[CHOOSE i \in ns : \A j \in ns : i <= j].type,
                    !.format = cells[CHOOSE i \in ns : \A j \in ns : i <= j].format]

\* The descriptor list new is the list old merged with the rows
MergeRule(old, new, rows) ==
  /\ Len(new) = (IF Width(rows) > Len(old) THEN Width(rows) ELSE Len(old))
  /\ \A k \in 1..Len(new) :
       IF k <= Len(old)
       THEN new[k] = Merged(old[k], ColumnCells(rows, k))
       ELSE new[k] = Merged([name |-> ColumnName(k),
                             type |-> ColumnCells(rows, k)[1].type,
                             format |-> ColumnCells(rows, k)[1].format,
                             index |-> k - 1],
                            ColumnCells(rows, k))

\* C11: in a streaming session, a batch of rows that arrives after the
\* schema is established changes the descriptor list per column index: a
\* new index appends a descriptor column_(index+1) with the type and
\* sub-format of its cell, a string descriptor takes the type and
\* sub-format of a non-string cell, a non-string descriptor stays.
C11_MergeRule ==
  [][\A s \in StreamIds :
       (formatInitialized /\ (ChunkStep(s) \/ FlushStep(s)) /\ StepRows(s) # <<>>) =>
         MergeRule(heap[result].format, heap'[result'].format, StepRows(s))]_vars

\* C11 witness: a stream whose first snapshot has the columns of its
\* header, all strings, and whose last snapshot has a column appended
\* under a synthesized name and a header column that became a number
C11_Witness ==
  \E s \in StreamIds :
    /\ options.header
    /\ Len(streams[s].emitted) >= 2
    /\ Len(Snapshots(s)[1].format) = Len(Snapshots(s)[1].header)
    /\ \A k \in 1..Len(Snapshots(s)[1].format) : Snapshots(s)[1].format[k].type = "string"
    /\ Len(Snapshots(s)[Len(streams[s].emitted)].format) > Len(Snapshots(s)[1].header)
    /\ Snapshots(s)[Len(streams[s].emitted)].format[1].type = "number"
    /\ Snapshots(s)[Len(streams[s].emitted)].format[
         Len(Snapshots(s)[Len(streams[s].emitted)].format)].name
           = ColumnName(Len(Snapshots(s)[Len(streams[s].emitted)].format))

\* Column k is not a string column and the rows hold a non-empty cell
\* detected as string in it
ConflictingEvidence(format, rows, k) ==
  /\ k <= Len(format)
  /\ format[k].type # "string"
  /\ \E i \in 1..Len(ColumnCells(rows, k)) :
       /\ ColumnCells(rows, k)[i].type = "string"
       /\ ColumnCells(rows, k)[i].value.s # <<>>

\* The snapshot the step enqueued for stream s
StepSnapshot(s) == streams'[s].emitted[Len(streams'[s].emitted)].copy

\* C12 as stated: a column inferred as a non-string type that receives a
\* non-empty cell detected as string is a string column in the snapshot
\* that follows.
C12_DemotesToString ==
  [][\A s \in StreamIds :
       (formatInitialized /\ (ChunkStep(s) \/ FlushStep(s)) /\ StepRows(s) # <<>>) =>
         \A k \in 1..Len(heap[result].format) :
           ConflictingEvidence(heap[result].format, StepRows(s), k) =>
             StepSnapshot(s).format[k].type = "string"]_vars

\* C12 amended: a column inferred as a non-string type that receives a
\* non-empty cell detected as string keeps its type and sub-format in the
\* snapshot that follows; the row is in the snapshot all the same.
C12_NeverDemotes ==
  [][\A s \in StreamIds :
       (formatInitialized /\ (ChunkStep(s) \/ FlushStep(s)) /\ StepRows(s) # <<>>) =>
         \A k \in 1..Len(heap[result].format) :
           ConflictingEvidence(heap[result].format, StepRows(s), k) =>
             /\ StepSnapshot(s).format[k].type = heap[result].format[k].type
             /\ StepSnapshot(s).format[k].format = heap[result].format[k].format
             /\ Len(StepSnapshot(s).values) = Len(heap[result].values) + Len(StepRows(s))]_vars

\* C12 witness: two consecutive snapshots of a stream, a non-string column
\* in the first, a new row in the second with a non-empty string in that
\* column, and the column still of its type
C12_Witness ==
  \E s \in StreamIds :
    \E i \in 1..(Len(streams[s].emitted) - 1) :
      \E k \in 1..Len(Snapshots(s)[i].format) :
        \E r \in (Len(Snapshots(s)[i].values) + 1)..Len(Snapshots(s)[i + 1].values) :
          /\ Snapshots(s)[i].format[k].type # "string"
          /\ Len(Snapshots(s)[i + 1].values[r]) >= k
          /\ Snapshots(s)[i + 1].values[r][k].k = "string"
          /\ Snapshots(s)[i + 1].values[r][k].s # <<>>
          /\ detectDataType(Snapshots(s)[i + 1].values[r][k].s, options.dateFormats).type
               = "string"
          /\ Snapshots(s)[i + 1].format[k].type = Snapshots(s)[i].format[k].type

\* The data rows among the rows that establish the schema
DataRows(o, rows) == IF o.header /\ rows # <<>> THEN Tail(rows) ELSE rows

EmptyCell(cell) == cell.value = StringValue(<<>>)

\* The cells of column k with the empty ones left out
NonEmptyCells(cells) ==
  LET Filled(cell) == ~EmptyCell(cell)
  IN SelectSeq(cells, Filled)

\* The descriptor d has the type and sub-format of the first of the cells,
\* and is a string column when there is none
TypedByFirst(d, cells) ==
  IF cells = <<>>
  THEN d.type = "string" /\ d.format = "none"
  ELSE d.type = cells[1].type /\ d.format = cells[1].format

\* A step that establishes the schema: parse(), or the first batch of
\* rows of a stream; the rows it establishes it from
Establishes ==
  \/ sessions' = sessions + 1 /\ returned' # <<>>
  \/ /\ ~formatInitialized
     /\ \E s \in StreamIds : (ChunkStep(s) \/ FlushStep(s)) /\ StepRows(s) # <<>>

EstablishingRows ==
  IF returned' # <<>> /\ sessions' = sessions + 1
  THEN parseInput(options, returned'[1].input)
  ELSE StepRows(1)

\* Every descriptor has the type of the first non-empty cell the rows have
\* in its column / of the first cell the rows have in its column
TypedByFirstValue(format, rows) ==
  \A k \in 1..Len(format) :
    \A cells \in {NonEmptyCells(ColumnCells(rows, k))} : TypedByFirst(format[k], cells)

TypedByFirstCell(format, rows) ==
  \A k \in 1..Len(format) :
    \A cells \in {ColumnCells(rows, k)} : TypedByFirst(format[k], cells)

\* One descriptor per cell of the first of the rows, each with the type
\* of the first cell the data rows have in its column
SchemaOfRows(o, format, rows) ==
  /\ rows # <<>> => Len(format) = Len(rows[1])
  /\ \A data \in {DataRows(o, rows)} : TypedByFirstCell(format, data)

\* C13 as stated: at schema establishment each column has the type and
\* sub-format of the first data row with a non-empty value at its index,
\* and is a string column when no data row has one.
C13_FirstNonEmptyValue ==
  [][Establishes =>
       \A rows \in {EstablishingRows} :
         TypedByFirstValue(heap'[result'].format, DataRows(options, rows))]_vars

\* C13 amended: at schema establishment each column has the type and
\* sub-format of the first data row that has a cell at its index, empty or
\* not; only rows too short to have the cell are skipped, and the column
\* is a string column when no data row has the cell.
C13_FirstRowWithCell ==
  [][Establishes =>
       \A rows \in {EstablishingRows} :
         SchemaOfRows(options, heap'[result'].format, rows)]_vars

\* C13 witness: the first snapshot of a stream holds a string column
\* whose first row has an empty cell and whose second row has a number,
\* and a number column that the first row is too short to have
C13_Witness ==
  \E s \in StreamIds : \E i \in 1..Len(streams[s].emitted) :
    /\ Len(Snapshots(s)[i].values) >= 2
    /\ \/ \E k \in 1..Len(Snapshots(s)[1].format) :
            /\ i = 1
            /\ Snapshots(s)[1].format[k].type = "string"
            /\ Len(Snapshots(s)[1].values[1]) >= k
            /\ Snapshots(s)[1].values[1][k] = StringValue(<<>>)
            /\ Len(Snapshots(s)[1].values[2]) >= k
            /\ Snapshots(s)[1].values[2][k].k = "number"
       \/ \E k \in 1..Len(Snapshots(s)[1].format) :
            /\ i = 1
            /\ Snapshots(s)[1].format[k].type = "number"
            /\ Len(Snapshots(s)[1].values[1]) < k
            /\ Len(Snapshots(s)[1].values[2]) >= k

\* The lines of the text that are not skipped
KeptLines(o, input) ==
  LET Kept(line) == ~SkipLine(o, line)
  IN SelectSeq(splitLines(input), Kept)

\* The trimmed texts of the cells of a line
CellTexts(o, line) == [i \in 1..Len(parseRow(o, line)) |-> trim(parseRow(o, line)[i])]

\* The names the texts of a header row give: the text, column_N when empty
NamesOf(texts) ==
  [i \in 1..Len(texts) |-> IF texts[i] # <<>> THEN texts[i] ELSE ColumnName(i)]

\* The result res of a text whose first non-skipped line is `first`
\* names its columns as the header option says
NamedByHeader(o, res, first) ==
  IF o.header
  THEN /\ res.header = NamesOf(CellTexts(o, first))
       /\ Len(res.format) >= Len(res.header)
       /\ \A i \in 1..Len(res.header) : res.format[i].name = res.header[i]
  ELSE /\ res.header = <<>>
       /\ \A i \in 1..Len(res.format) : res.format[i].name = ColumnName(i)

\* The complete result res of the non-skipped lines has one row per line,
\* the header line left out
RowsWithoutHeader(o, res, lines) ==
  Len(res.values) = (IF o.header THEN Len(lines) - 1 ELSE Len(lines))

\* C14: with the header option the text of every non-empty cell of the
\* first non-skipped row is the name of its column, empty header cells are
\* named column_N, and that row is not among the data rows; without the
\* option every name is column_N, header is empty and every row is data.
C14_HeaderNames ==
  /\ \A i \in 1..Len(returned) :
       KeptLines(options, returned[i].input) # <<>> =>
         /\ NamedByHeader(options, heap[returned[i].ref],
                          KeptLines(options, returned[i].input)[1])
         /\ options.maxRows = 0 =>
              RowsWithoutHeader(options, heap[returned[i].ref],
                                KeptLines(options, returned[i].input))
  /\ \A s \in StreamIds :
       /\ \A i \in 1..Len(streams[s].emitted) :
            NamedByHeader(options, Snapshots(s)[i], KeptLines(options, streams[s].input)[1])
       /\ (options.maxRows = 0 /\ streams[s].status = "closed" /\ streams[s].emitted # <<>>) =>
            RowsWithoutHeader(options, Snapshots(s)[Len(streams[s].emitted)],
                              KeptLines(options, streams[s].input))

\* Every descriptor of the list holds its own position (0-based)
IndexIsPosition(format) == \A k \in 1..Len(format) : format[k].index = k - 1

\* The list b has the descriptors of the list a under the same names
NamesKept(a, b) ==
  /\ Len(a) <= Len(b)
  /\ \A k \in 1..Len(a) : a[k].name = b[k].name

\* C15: in every batch result and every snapshot a descriptor's index is
\* its position in the column list, and from one snapshot of a session
\* to the next no descriptor is removed or renamed.
C15_IndexAndNameStable ==
  /\ \A i \in 1..Len(returned) : IndexIsPosition(heap[returned[i].ref].format)
  /\ \A s \in StreamIds :
       /\ \A i \in 1..Len(streams[s].emitted) : IndexIsPosition(Snapshots(s)[i].format)
       /\ \A i \in 1..(Len(streams[s].emitted) - 1) :
            NamesKept(Snapshots(s)[i].format, Snapshots(s)[i + 1].format)

\* C15 witness: a stream with a snapshot in which a column named by the
\* header has changed its type since the snapshot before, and a snapshot
\* that has a column more than the snapshot before
C15_Witness ==
  \E s \in StreamIds :
    /\ \E i \in 1..(Len(streams[s].emitted) - 1) :
         Len(Snapshots(s)[i + 1].format) > Len(Snapshots(s)[i].format)
    /\ \E i \in 1..(Len(streams[s].emitted) - 1) :
         \E k \in 1..Len(Snapshots(s)[i].format) :
           /\ Snapshots(s)[i].format[k].type # Snapshots(s)[i + 1].format[k].type
           /\ Snapshots(s)[i].format[k].name # ColumnName(k)

\* No two descriptors of the list have the same name
NamesDistinct(format) ==
  \A i, j \in 1..Len(format) : i # j => format[i].name # format[j].name

\* C16: in every batch result and every snapshot the names of the column
\* descriptors are pairwise distinct.
C16_NamesUnique ==
  /\ \A i \in 1..Len(returned) : NamesDistinct(heap[returned[i].ref].format)
  /\ \A s \in StreamIds :
       \A i \in 1..Len(streams[s].emitted) : NamesDistinct(Snapshots(s)[i].format)

\* C17: batch parse with maxRows = n >= 1 returns at most n data rows,
\* with the header option and without it.
C17_BatchRowLimit ==
  \A i \in 1..Len(returned) :
    options.maxRows >= 1 => Len(heap[returned[i].ref].values) <= options.maxRows

\* C18: in batch parse with maxRows = n >= 1 blank lines and comment lines
\* do not count against the limit: a text that holds at least n data rows
\* gives n data rows wherever its blank and comment lines are, never fewer
\* (that it gives no more than n is C17).
C18_LimitCountsDataRows ==
  \A i \in 1..Len(returned) :
    (options.maxRows >= 1 /\ DataRowCount(options, returned[i].input) >= options.maxRows) =>
      Len(heap[returned[i].ref].values) >= options.maxRows

\* Row r of the object form has under the name of column j what row r
\* of the array form has at column j (j is 1-based, within the header)
SameCell(res, objs, r, j) ==
  /\ res.header[j] \in DOMAIN objs[r]
  /\ j <= Len(res.values[r])
  /\ objs[r][res.header[j]] = res.values[r][j]

\* C19: for a batch result and its object form, every row i and every
\* column j within the header: object[i][header[j]] = array[i][j].
C19_ObjectMatchesArray ==
  (returned # <<>> /\ objects # <<>>) =>
    /\ Len(objects[1]) = Len(heap[returned[1].ref].values)
    /\ \A r \in 1..Len(objects[1]) :
         \A j \in 1..Len(heap[returned[1].ref].header) :
           SameCell(heap[returned[1].ref], objects[1], r, j)

\* The cells of the row as parse() read them, before its padding
RowCells(o, input, r) == CellValues(DataRows(o, parseInput(o, input)))[r]

\* The object obj is the object form of the cells under the header
ObjectOfCells(obj, header, cells) ==
  /\ DOMAIN obj = {KeyName(header, i - 1) : i \in 1..Len(cells)}
                    \cup {header[i] : i \in 1..Len(header)}
  /\ \A i \in 1..Len(cells) : obj[KeyName(header, i - 1)] = cells[i]
  /\ \A i \in (Len(cells) + 1)..Len(header) : obj[header[i]] = StringValue(<<>>)

\* C20: the object form of a row has each cell at position i under the
\* header name at i, or under column_(i+1) beyond the header, has the
\* empty string under every header name the row has no cell for, and has
\* no other key.
C20_ObjectOfRow ==
  (returned # <<>> /\ objects # <<>>) =>
    \A r \in 1..Len(objects[1]) :
      ObjectOfCells(objects[1][r], heap[returned[1].ref].header,
                    RowCells(options, returned[1].input, r))

\* The cells of the line as parse() types them
TypedCells(o, line) ==
  [c \in 1..Len(parseRow(o, line)) |->
     detectDataType(trim(parseRow(o, line)[c]), o.dateFormats)]

\* Row r of the result res is the row of the line: the values of the
\* cells of the line, all of them, then nothing but the padding up to the
\* header
RowOfLine(o, res, r, line) ==
  /\ Len(res.values[r]) >= Len(parseRow(o, line))
  /\ \A c \in 1..Len(parseRow(o, line)) : res.values[r][c] = TypedCells(o, line)[c].value
  /\ Len(res.values[r]) > Len(parseRow(o, line)) => Len(res.values[r]) <= Len(res.header)

\* The result res of the non-skipped lines has one descriptor per cell of
\* the first line, one header entry per cell with the header option and
\* none without it, and every row is the row of its line
SchemaOfFirstRow(o, res, lines) ==
  /\ Len(res.format) = Len(parseRow(o, lines[1]))
  /\ Len(res.header) = (IF o.header THEN Len(parseRow(o, lines[1])) ELSE 0)
  /\ \A r \in 1..Len(res.values) :
       /\ r + (IF o.header THEN 1 ELSE 0) <= Len(lines)
       /\ RowOfLine(o, res, r, lines[r + (IF o.header THEN 1 ELSE 0)])

\* C21: in batch parse the descriptor list has exactly as many entries as
\* the first non-skipped row; a later row with more cells keeps its extra
\* cells in its own row, adds no descriptor and no header entry, and
\* leaves the earlier rows as their lines give them.
C21_SchemaOfFirstRow ==
  \A i \in 1..Len(returned) :
    KeptLines(options, returned[i].input) # <<>> =>
      SchemaOfFirstRow(options, heap[returned[i].ref], KeptLines(options, returned[i].input))

\* A batch result whose second or later row has more cells than there
\* are descriptors, after a row with fewer
C21_Witness ==
  \E i \in 1..Len(returned) :
    \E r \in 2..Len(heap[returned[i].ref].values) :
      /\ Len(heap[returned[i].ref].values[r]) > Len(heap[returned[i].ref].format)
      /\ Len(heap[returned[i].ref].values[r - 1]) <= Len(heap[returned[i].ref].format)
      /\ Len(heap[returned[i].ref].format) >= 2

\* The line holds nothing but white space
Blank(line) == \A i \in 1..Len(line) : line[i] \in WhiteSpace

\* The first character of the line that is not white space starts the
\* comment marker
CommentLine(o, line) ==
  \E i \in 1..Len(line) :
    /\ \A j \in 1..(i - 1) : line[j] \in WhiteSpace
    /\ i + Len(o.comment) - 1 <= Len(line)
    /\ SubSeq(line, i, i + Len(o.comment) - 1) = o.comment

\* The line is made of delimiters only
OnlyDelimiters(o, line) ==
  line # <<>> /\ \A i \in 1..Len(line) : line[i] = o.delimiter

\* The lines of the text that are neither blank nor comments
ContentLines(o, input) ==
  LET Content(line) == ~Blank(line) /\ ~CommentLine(o, line)
  IN SelectSeq(splitLines(input), Content)

\* Every terminator of the text is LF or CR LF
NoLoneCR(input) ==
  \A i \in 1..Len(input) : input[i] = CR => (i < Len(input) /\ input[i + 1] = LF)

\* The complete result res of a text has the first of the lines for its
\* header (with the header option) and one row for each other line, in
\* order; the row of a line of n delimiters is n + 1 empty strings
RowsOfContentLines(o, res, lines) ==
  /\ o.header => Len(res.header) = Len(parseRow(o, lines[1]))
  /\ RowsWithoutHeader(o, res, lines)
  /\ \A r \in 1..Len(res.values) :
       \A line \in {lines[r + (IF o.header THEN 1 ELSE 0)]} :
         /\ RowOfLine(o, res, r, line)
         /\ OnlyDelimiters(o, line) =>
              /\ Len(res.values[r]) >= Len(line) + 1
              /\ \A c \in 1..(Len(line) + 1) : res.values[r][c] = StringValue(<<>>)

\* C22: in batch and in streaming parsing a line that is blank after
\* trimming or starts with the comment marker is skipped wherever it is,
\* also before the header line: it gives neither the header nor a row; a
\* line made only of delimiters is kept and gives a row of empty strings.
\* (Without maxRows, on texts whose terminators are LF or CR LF.)
C22_SkippedLines ==
  /\ \A i \in 1..Len(returned) :
       options.maxRows = 0 =>
         IF ContentLines(options, returned[i].input) = <<>>
         THEN heap[returned[i].ref].values = <<>> /\ heap[returned[i].ref].header = <<>>
         ELSE RowsOfContentLines(options, heap[returned[i].ref],
                                 ContentLines(options, returned[i].input))
  /\ \A s \in StreamIds :
       (options.maxRows = 0 /\ streams[s].status = "closed" /\ NoLoneCR(streams[s].input)) =>
         IF ContentLines(options, streams[s].input) = <<>>
         THEN streams[s].emitted = <<>>
         ELSE /\ streams[s].emitted # <<>>
              /\ RowsOfContentLines(options, Snapshots(s)[Len(streams[s].emitted)],
                                    ContentLines(options, streams[s].input))

\* A completed stream of a text with a comment line before the header, a
\* blank line after it and a line of delimiters: the last snapshot has the
\* header and the two rows
C22_Witness ==
  \E s \in StreamIds :
    /\ options.maxRows = 0 /\ options.header
    /\ streams[s].status = "closed"
    /\ CommentLine(options, splitLines(streams[s].input)[1])
    /\ \E p \in 2..Len(splitLines(streams[s].input)) :
         Blank(splitLines(streams[s].input)[p]) /\ p < Len(splitLines(streams[s].input))
    /\ \E p \in 1..Len(splitLines(streams[s].input)) :
         OnlyDelimiters(options, splitLines(streams[s].input)[p])
    /\ streams[s].emitted # <<>>
    /\ Len(Snapshots(s)[Len(streams[s].emitted)].header) = 1
    /\ Len(Snapshots(s)[Len(streams[s].emitted)].values) = 2

\* What the quoting rules make of every character of a line: for each
\* position its role (escape: the first quote of a pair inside a quoted
\* section; skipped: the second one; toggle: any other quote; split: a
\* delimiter outside a quoted section; literal: anything else) and the
\* quoted state after it
Roles(o, line) ==
  LET scan[i \in 0..Len(line)] ==
        IF i = 0 THEN [role |-> "none", inQuote |-> FALSE]
        ELSE IF scan[i - 1].role = "escape"
             THEN [role |-> "skipped", inQuote |-> scan[i - 1].inQuote]
        ELSE IF line[i] = o.quote
             THEN IF scan[i - 1].inQuote /\ i < Len(line) /\ line[i + 1] = o.quote
                  THEN [role |-> "escape", inQuote |-> TRUE]
                  ELSE [role |-> "toggle", inQuote |-> ~scan[i - 1].inQuote]
        ELSE IF line[i] = o.delimiter /\ ~scan[i - 1].inQuote
             THEN [role |-> "split", inQuote |-> FALSE]
        ELSE [role |-> "literal", inQuote |-> scan[i - 1].inQuote]
  IN scan

\* The positions of the line that split fields, in order, between the
\* start of the line (0) and its end (Len + 1)
Splits(roles, line) ==
  LET Split(i) == i = 0 \/ i = Len(line) + 1 \/ roles[i].role = "split"
  IN SelectSeq([i \in 1..(Len(line) + 2) |-> i - 1], Split)

\* The characters the positions strictly between a and b emit
EmittedBetween(roles, line, a, b) ==
  LET Emits(i) == roles[i].role \in {"escape", "literal"}
      kept == SelectSeq([i \in 1..(b - a - 1) |-> a + i], Emits)
  IN [j \in 1..Len(kept) |-> line[kept[j]]]

\* The fields the quoting rules give for the line
FieldsByRules(roles, line, splits) ==
  [f \in 1..(Len(splits) - 1) |-> EmittedBetween(roles, line, splits[f], splits[f + 1])]

\* The line "a,b","c""d" and its two fields
QuotedExample == <<"\"", "a", ",", "b", "\"", ",", "\"", "c", "\"", "\"", "d", "\"">>

QuotedExampleFields == <<<<"a", ",", "b">>, <<"c", "\"", "d">>>>

\* C23: for every line the fields parseRow returns are the fields of the
\* quoting rules: a quote inside a quoted section that is followed by a
\* quote emits one quote and both are consumed; any other quote toggles
\* the quoted state and emits nothing; a delimiter splits fields outside
\* a quoted section only and is emitted inside one; "a,b","c""d" gives
\* a,b and c"d.
C23_QuotingRules ==
  \A k \in 1..Len(fields) :
    /\ \A roles \in {Roles(options, fields[k].line)} :
         fields[k].out
           = FieldsByRules(roles, fields[k].line, Splits(roles, fields[k].line))
    /\ fields[k].line = QuotedExample => fields[k].out = QuotedExampleFields

\* parseRow was called with "a,b","c""d" and returned a,b and c"d
C23_Witness ==
  /\ fields # <<>>
  /\ fields[1].line = QuotedExample
  /\ fields[1].out = QuotedExampleFields

\* C24: parseRow returns for every line, the empty line and a line with
\* an unbalanced quote included: at least one field, one field more than
\* there are delimiters outside quoted sections, and a field whose quote
\* is never closed ends at the end of the line with the text it has.
C24_AlwaysFields ==
  \A k \in 1..Len(fields) :
    \A roles \in {Roles(options, fields[k].line)} :
      \A n \in {Len(fields[k].line)} :
        /\ Len(fields[k].out) >= 1
        /\ Len(fields[k].out)
             = 1 + Cardinality({i \in 1..n : roles[i].role = "split"})
        /\ fields[k].line = <<>> => fields[k].out = << <<>> >>
        /\ roles[n].inQuote =>
             \E q \in 1..n :
               /\ roles[q].role = "toggle" /\ roles[q].inQuote
               /\ \A i \in (q + 1)..n : roles[i].role \in {"escape", "skipped", "literal"}
               /\ \E a \in 0..(q - 1) :
                    /\ (a = 0 \/ roles[a].role = "split")
                    /\ \A i \in (a + 1)..q : roles[i].role # "split"
                    /\ fields[k].out[Len(fields[k].out)]
                         = EmittedBetween(roles, fields[k].line, a, n + 1)

\* parseRow returned two fields for a line whose second field opens a
\* quote that is never closed and holds a delimiter
C24_Witness ==
  /\ fields # <<>>
  /\ fields[1].line = <<"a", ",", "\"", ",">>
  /\ fields[1].out = <<<<"a">>, <<",">>>>

\* The text is true or false in any case of letters
BooleanText(t) == toLowerCase(t) \in {<<"t", "r", "u", "e">>, <<"f", "a", "l", "s", "e">>}

\* The type the first matching check gives the trimmed text t under the
\* formats df: empty, boolean, number, time patterns, date patterns, then
\* datetime (generic parse and a datetime pattern), else string
FirstMatch(t, df) ==
  CASE t = <<>> -> "string"
    [] t # <<>> /\ BooleanText(t) -> "boolean"
    [] t # <<>> /\ ~BooleanText(t) /\ IsNumeric(t) -> "number"
    [] OTHER ->
         IF MatchesAny(df.time, t) THEN "time"
         ELSE IF MatchesAny(df.date, t) THEN "date"
         ELSE IF DateParses(t) /\ MatchesAny(df.datetime, t) THEN "datetime"
         ELSE "string"

\* A call of detectDataType with the text v and the formats df returned
\* the type
Detected(v, df, type) ==
  \A k \in 1..Len(detected) :
    (detected[k].value = v /\ detected[k].dateFormats = df) => detected[k].out.type = type

\* C25: detectDataType with date formats applies its checks in the order
\* empty, boolean, number, time patterns, date patterns, datetime, and the
\* first that matches decides: a text that matches a time or date pattern
\* is time or date whether or not the Date constructor parses it, and a
\* text is datetime only if it parses and matches a datetime pattern,
\* else string.
C25_FirstMatchOrder ==
  /\ \A k \in 1..Len(detected) :
       (detected[k].value # Null /\ detected[k].dateFormats # Undefined) =>
         /\ detected[k].out.type = FirstMatch(trim(detected[k].value), detected[k].dateFormats)
         /\ detected[k].out.type \in {"time", "date", "datetime"} =>
              detected[k].out.value = StringValue(trim(detected[k].value))
  /\ Detected(<<"2", "7", ".", "1", "0", ".", "2", "0", "2", "3">>, DefaultDateFormats, "date")
  /\ Detected(<<"9", "9", ".", "9", "9", ".", "9", "9", "9", "9">>, DefaultDateFormats, "date")
  /\ Detected(<<"1", "0", ":", "3", "0", ":", "0", "0">>, DefaultDateFormats, "time")
  /\ Detected(<<"2", "5", ":", "6", "1">>, DefaultDateFormats, "time")
  /\ Detected(<<"2", "0", "2", "3", "-", "1", "0", "-", "2", "7", "T", "1", "0", ":", "3", "0", ":", "0", "0", "Z">>, DefaultDateFormats, "datetime")
  /\ Detected(<<"2", "0", "2", "3", "-", "1", "3", "-", "0", "1", "T", "1", "0", ":", "3", "0", ":", "0", "0", "Z">>, DefaultDateFormats, "string")
  /\ Detected(<<"1", "0", ":", "3", "0">>, CustomDateFormats, "time")
  /\ Detected(<<"2", "0", "2", "4">>, CustomDateFormats, "number")
  /\ Detected(<<"2", "0", "2", "3", "-", "1", "0", "-", "2", "7">>, CustomDateFormats, "string")

\* detectDataType returned date for 27.10.2023, which matches DD.MM.YYYY
\* and which the Date constructor does not parse
C25_Witness ==
  /\ detected # <<>>
  /\ detected[1].value = <<"2", "7", ".", "1", "0", ".", "2", "0", "2", "3">>
  /\ detected[1].dateFormats = DefaultDateFormats
  /\ ~DateParses(detected[1].value)
  /\ detected[1].out.type = "date"

\* The text has a decimal point
HasDecimalPoint(t) == \E i \in 1..Len(t) : t[i] = "."

\* The number value m * 10^e (m not a multiple of 10) is whole
WholeNumber(v) == v.n.m = 0 \/ v.n.e >= 0

\* C26: a value detected as a number has the sub-format integer if and
\* only if its text has no decimal point and its value has no fractional
\* part, else decimal: 0.0 is decimal, 123 is integer, 1e3 is integer.
C26_IntegerSubFormat ==
  \A k \in 1..Len(detected) :
    /\ detected[k].out.type = "number" =>
         /\ detected[k].out.format \in {"integer", "decimal"}
         /\ detected[k].out.format = "integer"
              <=> (~HasDecimalPoint(trim(detected[k].value)) /\ WholeNumber(detected[k].out.value))
    /\ detected[k].out.type # "number" => detected[k].out.format = "none"
    /\ detected[k].value = <<"0", ".", "0">> =>
         (detected[k].out.type = "number" /\ detected[k].out.format = "decimal")
    /\ detected[k].value = <<"1", "2", "3">> =>
         (detected[k].out.type = "number" /\ detected[k].out.format = "integer")
    /\ detected[k].value = <<"1", "e", "3">> =>
         (detected[k].out.type = "number" /\ detected[k].out.format = "integer")

\* detectDataType returned decimal for 0.0, a whole value written with a
\* decimal point
C26_Witness ==
  /\ detected # <<>>
  /\ detected[1].value = <<"0", ".", "0">>
  /\ WholeNumber(detected[1].out.value)
  /\ detected[1].out.type = "number"
  /\ detected[1].out.format = "decimal"

\* C28 as stated: null is answered by the type null, empty and blank
\* texts by the empty string of type string.
C28_NullIsNull ==
  \A k \in 1..Len(detected) :
    /\ detected[k].value = Null => detected[k].out.type = "null"
    /\ (detected[k].value # Null /\ trim(detected[k].value) = <<>>) =>
         (detected[k].out.type = "string" /\ detected[k].out.value = StringValue(<<>>))

\* The parser was made from a configuration without dateFormats
NoDateFormatsOption ==
  options = CSVParserOptions([header |-> options.header, maxRows |-> options.maxRows,
                              dateFormats |-> Undefined])

\* The text of the tests: a date, a time and a datetime under a header
DateTexts == <<"d", ",", "t", ",", "s", LF, "1", "9", "9", "0", "-", "0", "1", "-", "0", "1", ",", "1", "0", ":", "3", "0", ":", "0", "0", ",", "2", "0", "2", "3", "-", "1", "0", "-", "2", "7", SP, "1", "0", ":", "0", "0", ":", "0", "0">>

\* The first data row of the result res of the text has these types in
\* its columns
ColumnTypes(res, types) ==
  /\ Len(res.format) = Len(types)
  /\ \A c \in 1..Len(types) : res.format[c].type = types[c]

\* C27 as stated: without the dateFormats option 1990-01-01, 10:30:00 and
\* 2023-10-27 10:00:00 are strings and their columns have type string.
C27_DatesDisabled ==
  NoDateFormatsOption =>
    \A i \in 1..Len(returned) :
      (returned[i].input = DateTexts /\ options.header) =>
        ColumnTypes(heap[returned[i].ref], <<"string", "string", "string">>)

\* The column c of the complete result res has the type its first data
\* line gives it under the default formats
TypedByDefaultFormats(o, res, line) ==
  \A c \in 1..Len(res.format) :
    c <= Len(parseRow(o, line)) =>
      res.format[c].type = detectDataType(trim(parseRow(o, line)[c]), DefaultDateFormats).type

\* C27 amended: without the dateFormats option the default formats apply:
\* 1990-01-01, 10:30:00 and 2023-10-27 10:00:00 are classified date, time
\* and datetime and their columns get these types.
C27_DefaultFormatsApply ==
  NoDateFormatsOption =>
    /\ options.dateFormats = DefaultDateFormats
    /\ \A i \in 1..Len(returned) :
         /\ (returned[i].input = DateTexts /\ options.header) =>
              ColumnTypes(heap[returned[i].ref], <<"date", "time", "datetime">>)
         /\ \A lines \in {KeptLines(options, returned[i].input)} :
              \A d \in {IF options.header THEN 2 ELSE 1} :
                (d <= Len(lines) /\ heap[returned[i].ref].values # <<>>) =>
                  TypedByDefaultFormats(options, heap[returned[i].ref], lines[d])

\* parse() of the text on a parser made without dateFormats returned the
\* columns date, time and datetime
C27_Witness ==
  /\ NoDateFormatsOption
  /\ options.header
  /\ returned # <<>>
  /\ returned[1].input = DateTexts
  /\ ColumnTypes(heap[returned[1].ref], <<"date", "time", "datetime">>)
  /\ Len(heap[returned[1].ref].values) = 1

\* C29: parse() of one text with the same options gives the same result
\* when called twice in sequence on one instance, and the result a fresh
\* instance gives: the call before, parse() or a stream, leaves nothing
\* behind that changes the result.
C29_ParseRepeatable ==
  \A i \in 1..Len(returned) :
    /\ heap[returned[i].ref] = parseBody(options, FreshState, returned[i].input)
    /\ \A j \in 1..Len(previous) :
         previous[j].input = returned[i].input => heap[returned[i].ref] = previous[j].result

\* parse() was called twice in sequence with one text that has a header
\* and rows
C29_Witness ==
  /\ previous # <<>>
  /\ returned # <<>>
  /\ previous[1].input = returned[1].input
  /\ heap[returned[1].ref] = previous[1].result
  /\ heap[returned[1].ref].header # <<>>
  /\ Len(heap[returned[1].ref].values) >= 2

\* C30: a text without a data line (empty, or blank and comment lines
\* only) is not an error: parse() returns format = [], header = [] and
\* values = [], and a stream of it, or a stream without fragments, gets no
\* snapshot and completes.
C30_NoDataNoError ==
  /\ \A i \in 1..Len(returned) :
       ContentLines(options, returned[i].input) = <<>> =>
         heap[returned[i].ref] = EmptyResult
  /\ \A s \in StreamIds :
       ContentLines(options, streams[s].input) = <<>> =>
         /\ streams[s].emitted = <<>>
         /\ streams[s].status \in {"open", "closed", "cancelled"}
         /\ streams[s].status = "closed" => streams[s].pending = <<>>

\* A stream of blank and comment lines only has completed without a
\* snapshot
C30_Witness ==
  \E s \in StreamIds :
    /\ streams[s].input # <<>>
    /\ ContentLines(options, streams[s].input) = <<>>
    /\ streams[s].status = "closed"
    /\ streams[s].emitted = <<>>

\* C31: when the File given to parse() cannot be read the call fails and
\* no ParseResult, partial or empty, is returned to the caller; a call
\* with a string never fails this way.
C31_ReadFailureRejects ==
  \A c \in 1..Len(calls) :
    /\ (calls[c].input.file /\ ~calls[c].input.readable) =>
         (calls[c].status \in {"pending", "rejected"} /\ calls[c].ref = 0)
    /\ calls[c].status = "rejected" =>
         (calls[c].input.file /\ ~calls[c].input.readable /\ calls[c].ref = 0)
    /\ ~calls[c].input.file => calls[c].status \in {"pending", "resolved"}
    /\ calls[c].status = "resolved" => calls[c].ref \in 1..Len(heap)

\* A call with a File that cannot be read was rejected, and a call with
\* a string was resolved with its result
C31_Witness ==
  \E c, d \in 1..Len(calls) :
    /\ calls[c].input.file /\ ~calls[c].input.readable /\ calls[c].input.text # <<>>
    /\ calls[c].status = "rejected" /\ calls[c].ref = 0
    /\ ~calls[d].input.file /\ calls[d].status = "resolved"
    /\ heap[calls[d].ref].values # <<>>

\* C34 as stated: parse() calls started on one instance without awaiting
\* the first each resolve to the result of their own input: distinct
\* objects, none holding header entries, descriptors or rows of the other
\* call.
C34_CallsIsolated ==
  \A c, d \in 1..Len(calls) :
    (c # d /\ calls[c].status = "resolved" /\ calls[d].status = "resolved") =>
      /\ calls[c].ref # calls[d].ref
      /\ heap[calls[c].ref] = parseBody(options, FreshState, calls[c].input.text)

\* The text that follows the last line terminator of the text (the whole
\* text when it has none)
AfterLastTerminator(text) ==
  LET at == {i \in 1..Len(text) : text[i] \in {LF, CR}}
  IN IF at = {} THEN text
     ELSE SubSeq(text, (CHOOSE i \in at : \A j \in at : j <= i) + 1, Len(text))

\* The fragment stream s takes in the step
Fragment(s) ==
  SubSeq(streams[s].pending, 1, Len(streams[s].pending) - Len(streams'[s].pending))

\* C32 as stated: after every fragment handled by a session that is not
\* terminated the buffer is exactly the text that follows the last line
\* terminator of the buffer before it joined with the fragment; so when
\* that text has a terminator the buffer has no LF and no CR.
C32_BufferIsTail ==
  [][\A s \in StreamIds :
       (ChunkStep(s) /\ streams'[s].status = "open") =>
         buffer' = AfterLastTerminator(buffer \o Fragment(s))]_vars

\* The result of a stream that delivers the text as one fragment
OneFragmentResult(o, input) ==
  handleFlush(o, handleChunk(o, FreshState, input).st).st.result

\* C33 as stated: without maxRows the descriptors of the final snapshot of
\* a completed stream (count, names, types, sub-formats) are the same for
\* every way of cutting the text into fragments: they are those of the
\* stream that delivers the text as one fragment.
C33_FormatSplitIndependent ==
  \A s \in StreamIds :
    (options.maxRows = 0 /\ streams[s].status = "closed" /\ streams[s].emitted # <<>>) =>
      Snapshots(s)[Len(streams[s].emitted)].format
        = OneFragmentResult(options, streams[s].input).format

\* The session of the instance is being fed / has reached its final state
SessionOpen == streams # <<>> /\ streams[1].status = "open"

SessionDone == streams # <<>> /\ streams[1].status \in {"closed", "terminated"}

\* A handler call adds at most one snapshot, and a session in its final
\* state takes no further call
OneSnapshotPerCall ==
  \A s \in StreamIds :
    (sessions' = sessions /\ s <= Len(streams')) =>
      /\ Len(streams'[s].emitted) <= Len(streams[s].emitted) + 1
      /\ streams[s].status # "open" => streams'[s] = streams[s]
      /\ streams'[s] # streams[s] => (ChunkStep(s) \/ FlushStep(s))

\* C35: a streaming session whose source delivers finitely many fragments
\* and then ends reaches its final state, with an empty buffer; every
\* fragment and the end of input add at most one snapshot each, so at
\* most (number of fragments + 1) in all.
C35_SessionTerminates ==
  /\ [][OneSnapshotPerCall]_vars
  /\ [](SessionDone => buffer = <<>>)
  /\ SessionOpen ~> (SessionDone /\ buffer = <<>>)

\* A session that was cut inside a line has completed with one snapshot
\* per call that had rows, the last one from the end of input, and an
\* empty buffer
C35_Witness ==
  /\ SessionDone
  /\ streams[1].status = "closed"
  /\ "line" \in streams[1].cuts
  /\ Len(streams[1].emitted) >= 3
  /\ buffer = <<>>

\* The lines of the text that are not blank
NonBlankLines(input) ==
  LET Content(line) == ~Blank(line)
  IN SelectSeq(splitLines(input), Content)

\* C36: with the comment option '' no line is a comment: in batch and in
\* streaming parsing the lines of the text that are not blank give the
\* header and the rows. (Without maxRows, on texts whose terminators are
\* LF or CR LF.)
C36_EmptyCommentParses ==
  /\ \A i \in 1..Len(returned) :
       (options.comment = <<>> /\ options.maxRows = 0) =>
         IF NonBlankLines(returned[i].input) = <<>>
         THEN heap[returned[i].ref].values = <<>> /\ heap[returned[i].ref].header = <<>>
         ELSE RowsOfContentLines(options, heap[returned[i].ref],
                                 NonBlankLines(returned[i].input))
  /\ \A s \in StreamIds :
       (options.comment = <<>> /\ options.maxRows = 0
          /\ streams[s].status = "closed" /\ NoLoneCR(streams[s].input)) =>
         IF NonBlankLines(streams[s].input) = <<>>
         THEN streams[s].emitted = <<>>
         ELSE /\ streams[s].emitted # <<>>
              /\ RowsOfContentLines(options, Snapshots(s)[Len(streams[s].emitted)],
                                    NonBlankLines(streams[s].input))

====
